---- MODULE Spec2Model ----
(***************************************************************************)
(* Viscum plugin manager (viscum/__init__.py, viscum/hook.py,              *)
(* viscum/plugin/__init__.py): the module registry, instance naming,       *)
(* ownership check on unload, hook / method / interrupt tables with the    *)
(* unload cascade, script deferral and module discovery deferral.          *)
(*                                                                         *)
(* Strings that the code splits or formats are kept as sequences of their  *)
(* '-'-separated parts: 'beta-1' is <<"beta", "1">>, and                    *)
(* '{}-{}'.format(a, b) is Append(a, b).  None is the empty sequence.      *)
(***************************************************************************)
EXTENDS Integers, Sequences, FiniteSets, TLC

VARIABLES
    pyver,                \* interpreter major version the package runs on (2 or 3)
    found_modules,        \* ModuleManager.found_modules: set of discovered type names
    loaded_modules,       \* ModuleManager.loaded_modules: instance name -> instance
    attached_hooks,       \* ModuleManager.attached_hooks: system hook name -> hook
    custom_hooks,         \* ModuleManager.custom_hooks: hook name -> hook
    custom_methods,       \* ModuleManager.custom_methods: name -> (call, owner)
    external_interrupts,  \* ModuleManager.external_interrupts: name -> (call, owner)
    scripts,              \* ModuleManager.scripts: set of initialised scripts
    deferred_scripts,     \* ModuleManager.deferred_scripts: type -> script -> req_inst
    deferred_discoveries, \* ModuleManager.deferred_discoveries: candidate -> type
    discovery_active,     \* ModuleManager.discovery_active
    tick_counter,         \* ModuleManager.tick_counter
    ev,                   \* the last public operation: what was asked and how it ended
    log,                  \* calls into plugins / nested operations made by that operation
    streak                \* run of consecutive default-name loads of one type

vars == <<pyver, found_modules, loaded_modules, attached_hooks, custom_hooks,
          custom_methods, external_interrupts, scripts, deferred_scripts,
          deferred_discoveries, discovery_active, tick_counter, ev, log, streak>>

(***************************************************************************)
(* Bounds of the model.                                                    *)
(***************************************************************************)
MaxLoaded == 3        \* instances loaded at the same time
MaxSuffix == 3        \* largest automatic instance suffix
MaxAttached == 3      \* attachments per hook
MaxTick == 1          \* ticks

(***************************************************************************)
(* Names.                                                                  *)
(***************************************************************************)
None == <<>>
MODMAN == <<"modman">>
NoExc == "none"

\* str(n) for the automatic suffix, and the int() of the regex group ([0-9]+)
NumStr == <<"1", "2", "3", "4", "5", "6", "7", "8", "9">>
ToStr(n) == NumStr[n]
ToInt(c) ==
    IF \E i \in 1..Len(NumStr) : NumStr[i] = c
    THEN CHOOSE i \in 1..Len(NumStr) : NumStr[i] = c
    ELSE IF c = "01" THEN 1 ELSE -1

Max(S) == CHOOSE a \in S : \A b \in S : b <= a

\* re.match(r"<module_name>-([0-9]+)", module)
ReMatch(module_name, module) ==
    /\ Len(module) > Len(module_name)
    /\ SubSeq(module, 1, Len(module_name)) = module_name
    /\ ToInt(module[Len(module_name) + 1]) >= 0

\* a numbering that answers 1 whatever is loaded
AlwaysOne(module_name, loaded_module_list) == 1

handle_multiple_instance(module_name, loaded_module_list) ==
    LET instance_list == { ToInt(module[Len(module_name) + 1]) :
                             module \in { x \in loaded_module_list :
                                            ReMatch(module_name, x) } }
    IN  IF instance_list = {} THEN 1 ELSE Max(instance_list) + 1

(***************************************************************************)
(* Plugin classes known to the model (Module subclasses): capabilities,    *)
(* the fixed multi-instance suffix (None by default), required kwargs and  *)
(* the custom methods that __init__ calls through the handler once         *)
(* Module.__init__ has returned (tests/plugins/hbusdummy asks for          *)
(* 'hbus.get_slave_info' and reads the answer).                            *)
(***************************************************************************)
MultiInstanceAllowed == "MultiInstanceAllowed"

ModuleClasses ==
    [ alpha |-> [ _capabilities |-> {}, multi_inst_suffix |-> "",
                  _required_kw |-> {}, init_calls |-> <<>> ],
      beta  |-> [ _capabilities |-> {MultiInstanceAllowed}, multi_inst_suffix |-> "",
                  _required_kw |-> {}, init_calls |-> <<>> ],
      gamma |-> [ _capabilities |-> {MultiInstanceAllowed}, multi_inst_suffix |-> "x",
                  _required_kw |-> {}, init_calls |-> <<>> ],
      dummy |-> [ _capabilities |-> {}, multi_inst_suffix |-> "",
                  _required_kw |-> {"uid"}, init_calls |-> <<"m">> ],
      test_mod  |-> [ _capabilities |-> {}, multi_inst_suffix |-> "",
                      _required_kw |-> {"required_kw1"}, init_calls |-> <<>> ],
      multi_mod |-> [ _capabilities |-> {MultiInstanceAllowed}, multi_inst_suffix |-> "",
                      _required_kw |-> {"required_kw1"}, init_calls |-> <<>> ],
      module_two |-> [ _capabilities |-> {}, multi_inst_suffix |-> "",
                       _required_kw |-> {}, init_calls |-> <<>> ],
      module_one |-> [ _capabilities |-> {}, multi_inst_suffix |-> "",
                       _required_kw |-> {}, init_calls |-> <<>> ] ]

ModuleTypes == DOMAIN ModuleClasses

get_capabilities(module_class) == ModuleClasses[module_class]._capabilities
get_multi_inst_suffix(module_class) == ModuleClasses[module_class].multi_inst_suffix

(***************************************************************************)
(* Hooks (viscum/hook.py).                                                 *)
(***************************************************************************)
NO_ACTION == "NO_ACTION"
LOAD_MODULE == "LOAD_MODULE"
UNLOAD_MODULE == "UNLOAD_MODULE"

ManagerHooks == {"modman.module_loaded", "modman.module_unloaded", "modman.tick"}

ModuleManagerHook(owner) == [ owner |-> owner, attached_callbacks |-> <<>> ]

\* An attachment argument: None, an instance name, or a plugin class.
ArgNone == [ kind |-> "none", val |-> None ]
ArgInst(instance_name) == [ kind |-> "inst", val |-> instance_name ]
ArgClass(module_type) == [ kind |-> "class", val |-> <<module_type>> ]

\* A callback is identified by the instance whose bound method it is (or
\* <<"ext", k>> for function k of the embedding application) and by what a
\* call of it does: return a "truthy" or a "falsy" value, or "raises".
Callback(owner, returns) == [ owner |-> owner, returns |-> returns ]

HookAttacher(callback, action, argument) ==
    [ callback |-> callback, action |-> action, argument |-> argument ]

InSeq(x, s) == \E i \in 1..Len(s) : s[i] = x

RemoveFirst(s, x) ==
    LET i == CHOOSE j \in 1..Len(s) : s[j] = x /\ \A k \in 1..(j - 1) : s[k] # x
    IN  SubSeq(s, 1, i - 1) \o SubSeq(s, i + 1, Len(s))

\* an attach that appends without looking at the list
AttachAgain(hook, callback) ==
    [hook EXCEPT !.attached_callbacks = Append(@, callback)]

attach_callback(hook, callback) ==
    IF InSeq(callback, hook.attached_callbacks)
    THEN hook
    ELSE [hook EXCEPT !.attached_callbacks = Append(@, callback)]

detach_callback(hook, callback) ==
    IF InSeq(callback, hook.attached_callbacks)
    THEN [hook EXCEPT !.attached_callbacks = RemoveFirst(@, callback)]
    ELSE hook

find_callback_by_argument(hook, argument) ==
    SelectSeq(hook.attached_callbacks, LAMBDA callback : callback.argument = argument)

(***************************************************************************)
(* The manager object.  Operations are functions from a manager value to   *)
(* a result [m, exc, ret]: the manager afterwards, the exception that      *)
(* left the operation (NoExc when it returned) and the value returned.     *)
(* m.log collects the calls made into plugin code and the nested           *)
(* operations; m.deleted keeps the callback list of every hook object      *)
(* removed from custom_hooks, which a firing in progress still iterates.   *)
(***************************************************************************)
EmptyMap == [x \in {} |-> None]

Put(map, key, value) == (key :> value) @@ map
Del(map, key) == [k \in DOMAIN map \ {key} |-> map[k]]

RECURSIVE SetToSeq(_)
SetToSeq(S) ==
    IF S = {} THEN <<>>
    ELSE LET x == CHOOSE y \in S : TRUE IN <<x>> \o SetToSeq(S \ {x})

Ok(m, ret) == [ m |-> m, exc |-> NoExc, ret |-> ret ]
Raise(m, exc) == [ m |-> m, exc |-> exc, ret |-> None ]

Call(call, inst, info) == [ call |-> call, inst |-> inst, info |-> info ]
Called(m, call, inst, info) == [m EXCEPT !.log = Append(@, Call(call, inst, info))]

\* a constructor that does not keep the caller's kwargs
ModuleForgettingKwargs(module_type, kwargs, loaded_by) ==
    [ type |-> module_type,
      _loaded_kwargs |-> [ kwargs |-> [ instance_name |-> <<>>, instance_suffix |-> "",
                                        given |-> {} ],
                           plugmgr |-> "self", loaded_by |-> loaded_by ] ]

\* Module.__init__ keeps the kwargs it was given: the caller's, to which
\* _load_module added 'plugmgr' and 'loaded_by'
Module(module_type, kwargs, loaded_by) ==
    [ type |-> module_type,
      _loaded_kwargs |-> [ kwargs |-> kwargs, plugmgr |-> "self",
                           loaded_by |-> loaded_by ] ]

get_module_type(mod_obj) == mod_obj.type
get_loaded_kwargs(mod_obj, arg_name) == mod_obj._loaded_kwargs[arg_name]

\* a check of the kwargs that accepts every call
AcceptAnyKwargs(module_type, kwargs) == TRUE

_check_kwargs(module_type, kwargs) ==
    ModuleClasses[module_type]._required_kw \subseteq kwargs.given

\* the type check answering "not loaded" for every type
TypeNeverPresent(m, module_class_name) == FALSE

_is_module_type_present(m, module_class_name) ==
    \E mod_name \in DOMAIN m.loaded_modules :
        get_module_type(m.loaded_modules[mod_name]) = module_class_name

(***************************************************************************)
(* _unload_module                                                          *)
(***************************************************************************)
RECURSIVE DetachEach(_, _)
DetachEach(hook, attached_list) ==
    IF attached_list = <<>> THEN hook
    ELSE DetachEach(detach_callback(hook, Head(attached_list)), Tail(attached_list))

\* for attached in hook.find_callback_by_argument(module_name): hook.detach_callback(attached)
DetachTargeting(hooks, module_name) ==
    [ hook_name \in DOMAIN hooks |->
        DetachEach(hooks[hook_name],
                   find_callback_by_argument(hooks[hook_name], ArgInst(module_name))) ]

\* the handler_communicate(reason='provider_unloaded') calls made for one removed hook
NotifyAttached(m, hook) ==
    LET notified == SelectSeq(m.custom_hooks[hook].attached_callbacks,
                              LAMBDA attached :
                                  /\ attached.argument.kind = "inst"
                                  /\ attached.argument.val \in DOMAIN m.loaded_modules)
    IN  [ i \in 1..Len(notified) |->
            Call("handler_communicate", notified[i].argument.val, "provider_unloaded") ]

\* an unload cascade that finds nothing to remove
OwnedByNobody(table, module_name) == <<>>

\* the names in a table (custom_hooks, custom_methods, external_interrupts)
\* whose entry is owned by module_name
OwnedBy(table, module_name) ==
    SetToSeq({ name \in DOMAIN table : table[name].owner = module_name })

RECURSIVE RemoveHooks(_, _)
RemoveHooks(m, remove_hooks) ==
    IF remove_hooks = <<>> THEN m
    ELSE LET hook == Head(remove_hooks)
             m1 == [m EXCEPT !.log = @ \o NotifyAttached(m, hook),
                             !.deleted = Put(@, hook,
                                             m.custom_hooks[hook].attached_callbacks),
                             !.custom_hooks = Del(@, hook)]
         IN  RemoveHooks(Called(m1, "removing custom hook", <<hook>>, ""),
                         Tail(remove_hooks))

\* for name in remove_<table>: del self.<table>[name]; logger.debug(removing)
RECURSIVE RemoveEach(_, _, _, _)
RemoveEach(m, table, names, removing) ==
    IF names = <<>> THEN m
    ELSE RemoveEach(Called([m EXCEPT ![table] = Del(@, Head(names))],
                           removing, <<Head(names)>>, ""),
                    table, Tail(names), removing)

\* an unload that any requester may ask for
MayUnloadAnyone(the_module, requester) == TRUE

\* the requester is the instance that loaded the module, or the manager
MayUnload(the_module, requester) ==
    ~(requester # get_loaded_kwargs(the_module, "loaded_by") /\ requester # MODMAN)

_unload_module(m, module_name, requester) ==
    IF module_name \notin DOMAIN m.loaded_modules
    THEN Raise(m, "ModuleNotLoadedError")
    ELSE
    LET the_module == m.loaded_modules[module_name] IN
    IF ~MayUnload(the_module, requester)
    THEN Raise(m, "CannotUnloadError")
    ELSE
    LET \* do unloading procedure
        m1 == Called(m, "module_unload", module_name, "")
        \* remove custom hooks, notifying the attached first
        m2 == RemoveHooks(m1, OwnedBy(m1.custom_hooks, module_name))
        \* remove custom methods
        m3 == RemoveEach(m2, "custom_methods",
                         OwnedBy(m2.custom_methods, module_name),
                         "removing custom method")
        \* remove interrupt handlers
        m4 == RemoveEach(m3, "external_interrupts",
                         OwnedBy(m3.external_interrupts, module_name),
                         "removing interrupt handler")
        \* detach hooks
        m5 == [m4 EXCEPT !.custom_hooks = DetachTargeting(@, module_name),
                         !.attached_hooks = DetachTargeting(@, module_name)]
        \* remove
        m6 == [m5 EXCEPT !.loaded_modules = Del(@, module_name)]
    IN  Ok(m6, None)

(***************************************************************************)
(* Scripts (viscum/scripting): what a script asks for when it is           *)
(* initialised.  A script raises DeferScriptLoading({'type', 'inst'})      *)
(* while the instance it needs is not loaded.                              *)
(*   s_sym   references the symbol beta__1      -> needs 'beta-1', inst '1' *)
(*   s_req   require_instance('alpha')          -> needs 'alpha', inst      *)
(*           'alpha' (not a multi-instance type)                            *)
(*   s_any   ModuleProxy('beta').get_instance('') -> inst ''                *)
(***************************************************************************)
ScriptFiles ==
    [ s_sym |-> [ type |-> "beta",  inst |-> <<"1">>,     needs |-> <<"beta", "1">>,
                  proxy |-> FALSE ],
      s_req |-> [ type |-> "alpha", inst |-> <<"alpha">>, needs |-> <<"alpha">>,
                  proxy |-> FALSE ],
      s_any |-> [ type |-> "beta",  inst |-> <<>>,        needs |-> <<"beta", "">>,
                  proxy |-> TRUE ],
      s_kw  |-> [ type |-> "test_mod", inst |-> <<"test_mod">>, needs |-> <<"test_mod">>,
                  proxy |-> FALSE ] ]

_discover_script(m, script) ==
    LET sc == ScriptFiles[script]
        m1 == Called(m, "ModuleManagerScript", <<script>>, "")
    IN  IF sc.needs \in DOMAIN m.loaded_modules
        THEN Ok([m1 EXCEPT !.scripts = @ \cup {script}], None)
        ELSE IF sc.type \notin m.found_modules /\ ~sc.proxy
        THEN \* InvalidModuleError, caught by except Exception
             Ok(Called(m1, "failed to load script", <<script>>, ""), None)
        ELSE \* except DeferScriptLoading as ex: ... ex.message['type'] ...
             IF m.pyver = 3
             THEN Raise(m1, "AttributeError")
             ELSE IF sc.type \notin DOMAIN m1.deferred_scripts
                  THEN Ok([m1 EXCEPT !.deferred_scripts =
                               Put(@, sc.type, (script :> sc.inst))], None)
                  ELSE Ok([m1 EXCEPT !.deferred_scripts =
                               Put(@, sc.type, Put(@[sc.type], script, sc.inst))], None)

RECURSIVE DiscoverEach(_, _)
DiscoverEach(m, script_paths) ==
    IF script_paths = <<>> THEN Ok(m, None)
    ELSE LET r == _discover_script(m, Head(script_paths))
         IN  IF r.exc # NoExc THEN r ELSE DiscoverEach(r.m, Tail(script_paths))

\* the loop at the end of _load_module over self.deferred_scripts
ReplayDeferredScripts(m, module_name, instance_name) ==
    LET script_list == IF module_name \in DOMAIN m.deferred_scripts
                       THEN m.deferred_scripts[module_name] ELSE EmptyMap
        met == { script_path \in DOMAIN script_list :
                   LET req_inst == script_list[script_path]
                   IN  /\ req_inst # <<>>
                       /\ \/ instance_name = <<module_name>> \o req_inst
                          \/ instance_name = req_inst }
    IN  DiscoverEach(m, SetToSeq(met))

(***************************************************************************)
(* _trigger_hooks and _load_module.  The for loop of _trigger_hooks walks  *)
(* the hook's list object by index while the triggered actions may remove  *)
(* elements from that same list.                                           *)
(***************************************************************************)
KwArgs(instance_name, instance_suffix, given) ==
    [ instance_name |-> instance_name, instance_suffix |-> instance_suffix,
      given |-> given ]

NoKwArgs == KwArgs(None, "", {})

LiveCallbacks(m, hook_dict, hook_name) ==
    IF hook_dict = "attached_hooks"
    THEN m.attached_hooks[hook_name].attached_callbacks
    ELSE IF hook_name \in DOMAIN m.custom_hooks
         THEN m.custom_hooks[hook_name].attached_callbacks
         ELSE m.deleted[hook_name]

RECURSIVE _load_module(_, _, _, _)
RECURSIVE TriggerFrom(_, _, _, _, _)

\* the action of an attachment answered r: the load is recorded with the
\* name it returned, the unload with the instance it was asked for, and what
\* the action raised is caught and logged
ActionDone(r, action, message, attached_callback, hook_name) ==
    LET m2 == Called(r.m, action,
                     IF action = "load_module" THEN r.ret
                     ELSE attached_callback.argument.val, r.exc)
    IN  IF r.exc = NoExc THEN m2
        ELSE Called(m2, message, attached_callback.callback.owner, hook_name)

\* one turn of the loop body: the callback, then the action when it returned
\* true; whatever the turn raises is caught and logged
TriggerOne(m, hook_name, attached_callback, kwargs) ==
    LET m1 == Called(m, "callback", attached_callback.callback.owner, hook_name)
    IN  IF attached_callback.callback.returns = "raises"
        THEN Called(m1, "failed to call function",
                    attached_callback.callback.owner, hook_name)
        ELSE IF attached_callback.callback.returns # "truthy"
        THEN m1
        ELSE IF attached_callback.action = LOAD_MODULE
        THEN IF attached_callback.argument.kind = "class"
             THEN ActionDone(_load_module(m1, attached_callback.argument.val[1],
                                          MODMAN, kwargs),
                             "load_module", "loading of module failed",
                             attached_callback, hook_name)
             ELSE \* the argument has no get_module_desc, and no __name__ for
                  \* the message of the inner handler
                  Called(m1, "failed to call function",
                         attached_callback.callback.owner, hook_name)
        ELSE IF attached_callback.action = UNLOAD_MODULE
        THEN ActionDone(IF attached_callback.argument.kind = "inst"
                        THEN _unload_module(m1, attached_callback.argument.val, MODMAN)
                        ELSE Raise(m1, "ModuleNotLoadedError"),
                        "unload_module", "failed to call function",
                        attached_callback, hook_name)
        ELSE m1

TriggerFrom(m, hook_dict, hook_name, i, kwargs) ==
    LET callbacks == LiveCallbacks(m, hook_dict, hook_name)
    IN  IF i > Len(callbacks) THEN m
        ELSE TriggerFrom(TriggerOne(m, hook_name, callbacks[i], kwargs),
                         hook_dict, hook_name, i + 1, kwargs)

\* the firing is recorded with the hook name followed by the instance_name
\* argument of the event, and with whether an instance of that name is in
\* loaded_modules when the firing starts
Registered(m, instance_name) ==
    IF instance_name \in DOMAIN m.loaded_modules THEN "registered" ELSE "unregistered"

\* a firing that invokes nothing and records nothing
NeverTrigger(m, hook_dict, hook_name, kwargs) == Ok(m, None)

_trigger_hooks(m, hook_dict, hook_name, kwargs) ==
    IF hook_dict = "custom_hooks" /\ hook_name \notin DOMAIN m.custom_hooks
    THEN Raise(m, "KeyError")
    ELSE Ok(TriggerFrom(Called(m, "_trigger_hooks",
                               <<hook_name>> \o kwargs.instance_name,
                               Registered(m, kwargs.instance_name)),
                        hook_dict, hook_name, 1, kwargs), None)

call_custom_method(m, method_name) ==
    IF method_name \in DOMAIN m.custom_methods
    THEN Ok(Called(m, "custom_method", m.custom_methods[method_name].owner, method_name),
            <<method_name>>)
    ELSE Raise(m, "MethodNotAvailableError")

Handled(r) ==
    [ m |-> r.m, exc |-> r.exc, ret |-> r.ret, error |-> r.exc, done |-> FALSE ]

Returned(r) ==
    [ m |-> r.m, exc |-> r.exc, ret |-> r.ret, error |-> r.exc, done |-> TRUE ]

\* the_module = self.loaded_modules[which_module]; the_module.handler_communicate(...)
Communicate(r, which_module, reason) ==
    IF which_module \in DOMAIN r.m.loaded_modules
    THEN [ m |-> Called(r.m, "handler_communicate", which_module, reason),
           exc |-> NoExc, ret |-> None, error |-> r.exc, done |-> FALSE ]
    ELSE [ m |-> r.m, exc |-> "KeyError", ret |-> None, error |-> r.exc, done |-> FALSE ]

\* module_handler(which_module, call_custom_method=value): the turn of the
\* loop for this keyword, which returns from the handler
HandleCallCustomMethod(m, which_module, value) ==
    LET r == call_custom_method(m, value)
    IN  IF r.exc = "MethodNotAvailableError"
        THEN [ Communicate(r, which_module, "call_method_failed") EXCEPT !.done = TRUE ]
        ELSE Returned(r)

\* an installation that replaces the entry under the name
InstallOverwriting(m, hook_name, installed_by) ==
    Ok([m EXCEPT !.custom_hooks = Put(@, hook_name, ModuleManagerHook(installed_by))],
       None)

_install_custom_hook(m, hook_name, installed_by) ==
    IF hook_name \in DOMAIN m.custom_hooks
    THEN Raise(m, "HookAlreadyInstalledError")
    ELSE Ok([m EXCEPT !.custom_hooks = Put(@, hook_name, ModuleManagerHook(installed_by))],
            None)

ModuleManagerMethod(call, owner) == [ call |-> call, owner |-> owner ]

_install_custom_method(m, method_name, callback, installer) ==
    IF method_name \in DOMAIN m.custom_methods
    THEN Raise(m, "MethodAlreadyInstalledError")
    ELSE Ok([m EXCEPT !.custom_methods =
                 Put(@, method_name, ModuleManagerMethod(callback, installer))], None)

_install_interrupt_handler(m, interrupt_key, callback, installer) ==
    IF interrupt_key \in DOMAIN m.external_interrupts
    THEN Raise(m, "InterruptAlreadyInstalledError")
    ELSE Ok([m EXCEPT !.external_interrupts =
                 Put(@, interrupt_key, ModuleManagerMethod(callback, installer))], None)

\* an attachment that installs the hook it does not find
AttachCreating(m, attach_to, callback, action, argument) ==
    Ok([m EXCEPT !.custom_hooks =
            Put(@, attach_to,
                attach_callback(IF attach_to \in DOMAIN @ THEN @[attach_to]
                                ELSE ModuleManagerHook(MODMAN),
                                HookAttacher(callback, action, argument)))], None)

attach_custom_hook(m, attach_to, callback, action, argument) ==
    IF attach_to \in DOMAIN m.custom_hooks
    THEN Ok([m EXCEPT !.custom_hooks[attach_to] =
                 attach_callback(@, HookAttacher(callback, action, argument))], None)
    ELSE Raise(m, "HookNotAvailableError")

attach_manager_hook(m, attach_to, callback, action, driver_class) ==
    IF attach_to \in DOMAIN m.attached_hooks
    THEN Ok([m EXCEPT !.attached_hooks[attach_to] =
                 attach_callback(@, HookAttacher(callback, action, driver_class))], None)
    ELSE Raise(m, "HookNotAvailableError")

\* What the constructor of a class asks of the dispatcher, one keyword per
\* call, after Module.__init__ (tests/test_args.py TestModuleOne): it
\* requires the instance 'module_two', installs a custom method, an
\* interrupt handler and a custom hook, and attaches its tick callback to
\* the timer hook.
ConstructorRequests ==
    [ module_one |-> << "require_module_instance", "install_custom_method",
                        "install_interrupt_handler", "install_custom_hook",
                        "attach_manager_hook" >> ]

init_requests(module_name) ==
    IF module_name \in DOMAIN ConstructorRequests
    THEN ConstructorRequests[module_name] ELSE <<>>

\* except <error>: self.loaded_modules[which_module].handler_communicate(...)
Reported(r, which_module, reason) ==
    IF r.exc # NoExc THEN Communicate(r, which_module, reason) ELSE Handled(r)

\* handler(module_id, <kwg>=...): the turn of the dispatcher's loop for the
\* one keyword of a constructor's request
InitRequest(m, module_id, kwg) ==
    CASE kwg = "require_module_instance" ->
           IF <<"module_two">> \notin DOMAIN m.loaded_modules
           THEN Handled(Raise(m, "ModuleLoadError"))
           ELSE Handled(Ok(m, None))
      [] kwg = "install_custom_method" ->
           Reported(_install_custom_method(m, "m", Callback(module_id, "falsy"),
                                           module_id),
                    module_id, "install_method_failed")
      [] kwg = "install_interrupt_handler" ->
           Reported(_install_interrupt_handler(m, "i", Callback(module_id, "falsy"),
                                               module_id),
                    module_id, "install_interrupt_failed")
      [] kwg = "install_custom_hook" ->
           Reported(_install_custom_hook(m, "h", module_id),
                    module_id, "install_hook_failed")
      [] kwg = "attach_manager_hook" ->
           Reported(attach_manager_hook(m, "modman.tick", Callback(module_id, "falsy"),
                                        NO_ACTION, ArgNone),
                    module_id, "attach_hook_failed")

RECURSIVE InitRequests(_, _, _)

\* the constructor goes on with its next request unless the last one raised
NextRequest(r, module_id, requests) ==
    IF r.exc # NoExc
    THEN Raise(Called(r.m, "module_handler", module_id, r.exc), r.exc)
    ELSE InitRequests(r.m, module_id, requests)

InitRequests(m, module_id, requests) ==
    IF requests = <<>> THEN Ok(m, None)
    ELSE NextRequest(InitRequest(m, module_id, Head(requests)), module_id,
                     Tail(requests))

\* the subclass constructor continues after the calls of custom methods
AfterCalls(r, module_name, module_id) ==
    IF r.exc # NoExc THEN r
    ELSE InitRequests(r.m, module_id, init_requests(module_name))

\* module_class(module_id=..., handler=self.module_handler, **kwargs):
\* Module.__init__ checks the kwargs, then the subclass calls the custom
\* methods it needs through the handler, under the id it was given.  A call
\* that the handler answers with None makes the subclass fail on the answer.
RECURSIVE InitCalls(_, _, _)
InitCalls(m, module_id, calls) ==
    IF calls = <<>> THEN Ok(m, None)
    ELSE LET r == HandleCallCustomMethod(m, module_id, Head(calls))
             m1 == Called(r.m, "module_handler", module_id, r.exc)
         IN  IF r.exc # NoExc THEN Raise(m1, r.exc)
             ELSE IF r.error # NoExc THEN Raise(m1, "TypeError")
             ELSE InitCalls(m1, module_id, Tail(calls))

Construct(m, module_name, module_id, kwargs) ==
    IF ~_check_kwargs(module_name, kwargs)
    THEN Raise(m, "ModuleLoadError")
    ELSE AfterCalls(InitCalls(m, module_id, ModuleClasses[module_name].init_calls),
                    module_name, module_id)

\* return instance_name, unless the replay of the deferred scripts raised
Loaded_as(r, instance_name) == IF r.exc # NoExc THEN r ELSE Ok(r.m, instance_name)

_load_module(m, module_name, loaded_by, kwargs) ==
    IF module_name \notin m.found_modules
    THEN Raise(m, "ModuleLoadError")
    ELSE
    LET named == IF kwargs.instance_name = None
                 THEN <<module_name>> ELSE kwargs.instance_name
        instance_name == IF kwargs.instance_suffix # ""
                         THEN Append(named, kwargs.instance_suffix) ELSE named
    IN
    IF /\ _is_module_type_present(m, module_name)
       /\ MultiInstanceAllowed \notin get_capabilities(module_name)
    THEN Raise(m, "ModuleAlreadyLoadedError")
    ELSE IF instance_name \in DOMAIN m.loaded_modules
    THEN \* handle multiple instances
         LET multi_inst_name ==
                 IF get_multi_inst_suffix(module_name) = ""
                 THEN Append(instance_name,
                             ToStr(handle_multiple_instance(instance_name,
                                                            DOMAIN m.loaded_modules)))
                 ELSE Append(instance_name, get_multi_inst_suffix(module_name))
             module_inst == Construct(m, module_name, multi_inst_name, kwargs)
         IN  IF module_inst.exc # NoExc
             THEN module_inst
             ELSE LET m1 == [module_inst.m EXCEPT !.loaded_modules =
                                 Put(@, multi_inst_name,
                                     Module(module_name, kwargs, loaded_by))]
                      m2 == _trigger_hooks(m1, "attached_hooks", "modman.module_loaded",
                                           KwArgs(multi_inst_name, "", {})).m
                  IN  Ok(m2, multi_inst_name)
    ELSE \* load (create object)
         LET mod_inst == Construct(m, module_name, instance_name, kwargs) IN
         IF mod_inst.exc # NoExc
         THEN mod_inst
         ELSE LET m1 == [mod_inst.m EXCEPT !.loaded_modules =
                             Put(@, instance_name,
                                 Module(module_name, kwargs, loaded_by))]
                  m2 == _trigger_hooks(m1, "attached_hooks", "modman.module_loaded",
                                       KwArgs(instance_name, "", {})).m
                  \* look for scripts that have been deferred from loading
              IN  Loaded_as(ReplayDeferredScripts(m2, module_name, instance_name),
                            instance_name)

(***************************************************************************)
(* Module discovery.  A candidate is a plugin directory; its               *)
(* discover_module() calls require_discovered_module for each type it      *)
(* needs and then returns its class, which is registered under the type    *)
(* name of the class (get_module_desc().arg_name), not under the           *)
(* directory name: tests/plugins/mpdcli registers 'mpd', espnode           *)
(* registers 'pespnode'.                                                   *)
(***************************************************************************)
PluginDirs ==
    [ alpha   |-> [ arg_name |-> "alpha",   requires |-> <<>>,          broken |-> FALSE ],
      betacli |-> [ arg_name |-> "beta",    requires |-> <<>>,          broken |-> FALSE ],
      gamma   |-> [ arg_name |-> "gamma",   requires |-> <<"alpha">>,   broken |-> FALSE ],
      delta   |-> [ arg_name |-> "delta",   requires |-> <<"beta">>,    broken |-> FALSE ],
      eta     |-> [ arg_name |-> "eta",     requires |-> <<"alpha", "omega">>,
                                                                        broken |-> FALSE ],
      theta   |-> [ arg_name |-> "theta",   requires |-> <<"alpha", "gamma">>,
                                                                        broken |-> FALSE ],
      zeta    |-> [ arg_name |-> "zeta",    requires |-> <<>>,          broken |-> TRUE ],
      mu      |-> [ arg_name |-> "mu",      requires |-> <<"nu">>,      broken |-> FALSE ],
      nu      |-> [ arg_name |-> "nu",      requires |-> <<"mu">>,      broken |-> FALSE ],
      kappa   |-> [ arg_name |-> "kappa",   requires |-> <<"gamma">>,   broken |-> FALSE ],
      iota    |-> [ arg_name |-> "iota",    requires |-> <<"alpha">>,   broken |-> TRUE ] ]

\* The interpreter limits the depth of the call stack (sys.getrecursionlimit(),
\* 1000 frames).  A nested _module_discovery that would exceed it gets
\* RecursionError from a call inside its try block, where `except Exception`
\* takes it for a candidate that could not be registered.  m.depth counts
\* the calls of _module_discovery that are in progress.
RecursionLimit == 5

\* deferred_discoveries is a dict; it is kept as the sequence of its items
\* in insertion order.
DictHas(items, key) == \E i \in 1..Len(items) : items[i].module = key

DictSet(items, key, value) ==
    IF DictHas(items, key)
    THEN [ i \in 1..Len(items) |->
             IF items[i].module = key
             THEN [ module |-> key, dependency |-> value ] ELSE items[i] ]
    ELSE Append(items, [ module |-> key, dependency |-> value ])

DictDel(items, key) == SelectSeq(items, LAMBDA item : item.module # key)

\* require_discovered_module, for each type the candidate needs in turn:
\* the first type that is not discovered, or "" when all are
FirstMissing(m, requires) ==
    LET missing == { i \in 1..Len(requires) : requires[i] \notin m.found_modules }
    IN  IF m.discovery_active /\ missing # {}
        THEN requires[CHOOSE i \in missing : \A j \in missing : i <= j]
        ELSE ""

RECURSIVE RemoveDone(_, _)
RemoveDone(m, deferred_done) ==
    IF deferred_done = <<>> THEN Ok(m, None)
    ELSE IF ~DictHas(m.deferred_discoveries, Head(deferred_done))
         THEN Raise(m, "KeyError")
         ELSE RemoveDone([m EXCEPT !.deferred_discoveries = DictDel(@, Head(deferred_done))],
                         Tail(deferred_done))

RECURSIVE _module_discovery(_, _)
RECURSIVE DeferredLoop(_, _, _, _, _, _)

\* for deferred, dependency in self.deferred_discoveries.items(): under
\* Python 2 items() is a copy taken when the loop starts; under Python 3 it
\* is a view of the dict, and the iterator raises RuntimeError once the
\* size of the dict differs from the size it had when the loop started.
DeferredLoop(m, module, discovery_succeeded, items, i, deferred_done) ==
    IF m.pyver = 3 /\ Len(m.deferred_discoveries) # Len(items)
    THEN Raise(m, "RuntimeError")
    ELSE IF i > Len(items)
    THEN \* remove done deferrals
         LET r == RemoveDone(m, deferred_done)
         IN  IF r.exc # NoExc THEN r
             ELSE Ok([r.m EXCEPT !.discovery_active = FALSE, !.depth = @ - 1], None)
    ELSE LET item == IF m.pyver = 3 THEN m.deferred_discoveries[i] ELSE items[i]
         IN  IF item.dependency = module /\ discovery_succeeded
             THEN LET r == _module_discovery(m, item.module)
                  IN  IF r.exc # NoExc THEN r
                      ELSE DeferredLoop(r.m, module, discovery_succeeded, items, i + 1,
                                        Append(deferred_done, item.module))
             ELSE DeferredLoop(m, module, discovery_succeeded, items, i + 1,
                               deferred_done)

_module_discovery(m, module) ==
    IF module = "__init__" THEN Ok(m, None)
    ELSE
    LET the_mod == PluginDirs[module]
        m0 == [m EXCEPT !.discovery_active = TRUE, !.depth = @ + 1]
        overflow == m0.depth > RecursionLimit
        required == IF overflow THEN "" ELSE FirstMissing(m0, the_mod.requires)
        \* the try block
        m1 == IF overflow
              THEN \* except Exception
                   Called(m0, "failed", <<module>>, "RecursionError")
              ELSE IF required # ""
              THEN \* except DeferModuleDiscovery
                   Called([m0 EXCEPT !.deferred_discoveries = DictSet(@, module, required)],
                          "deferred", <<module>>, required)
              ELSE IF the_mod.broken
              THEN \* except Exception
                   Called(m0, "failed", <<module>>, "")
              ELSE Called([m0 EXCEPT !.found_modules = @ \cup {the_mod.arg_name}],
                          "discovered", <<module>>, the_mod.arg_name)
        discovery_succeeded == ~overflow /\ required = "" /\ ~the_mod.broken
    IN  DeferredLoop(m1, module, discovery_succeeded, m1.deferred_discoveries, 1, <<>>)

RECURSIVE DiscoverAll(_, _)
DiscoverAll(m, module_list) ==
    IF module_list = <<>> THEN Ok(m, None)
    ELSE LET r == _module_discovery(m, Head(module_list))
         IN  IF r.exc # NoExc THEN r ELSE DiscoverAll(r.m, Tail(module_list))

\* discover_modules: its warning lists the keys left in deferred_discoveries
discover_modules(m, module_list) ==
    LET r == DiscoverAll(m, module_list)
    IN  IF r.exc # NoExc THEN r
        ELSE Ok(r.m, [ i \in 1..Len(r.m.deferred_discoveries) |->
                         r.m.deferred_discoveries[i].module ])

(***************************************************************************)
(* The public operations of ModuleManager.                                 *)
(***************************************************************************)
insert_module(m, module_class) ==
    Ok([m EXCEPT !.found_modules = @ \cup {module_class}], None)

load_module(m, module_name, kwargs) == _load_module(m, module_name, MODMAN, kwargs)

(***************************************************************************)
(* Properties and methods of an instance (viscum/plugin).  A callable of   *)
(* the plugin is described by what a call of it does: it returns, or it    *)
(* raises the named exception; NotMapped is a descriptor that no callable  *)
(* was connected to (getter, setter or method_call is None).               *)
(***************************************************************************)
READ == 0
WRITE == 1
RW == 2

NotMapped == ""
Returns == "returns"

ModuleProperty(permissions, getter, setter) ==
    [ permissions |-> permissions, getter |-> getter, setter |-> setter ]

\* an argument descriptor has the attribute 'required' only when it was
\* created with the extra keyword required=... (build_module_method_list);
\* ModuleMethodArgument(desc, argument_required=...) sets the attribute
\* 'argument_required' and no attribute 'required'
ModuleMethodArgument(arg_name, argument_required, required) ==
    [ arg_name |-> arg_name, argument_required |-> argument_required,
      required |-> required ]

NoAttribute == "no attribute"

ModuleMethod(method_args, method_call) ==
    [ method_args |-> method_args, method_call |-> method_call ]

\* tests/test_args.py TestModuleTwo: property1 (read and write), property2
\* (read), property3 (write), all with a getter and a setter in the class;
\* further properties whose callables raise or are missing
ClassProperties ==
    [ property1 |-> ModuleProperty(RW, Returns, Returns),
      property2 |-> ModuleProperty(READ, Returns, Returns),
      property3 |-> ModuleProperty(WRITE, Returns, Returns),
      p_fail    |-> ModuleProperty(RW, "ValueError", "ValueError"),
      p_key     |-> ModuleProperty(RW, "KeyError", "KeyError"),
      p_none    |-> ModuleProperty(RW, NotMapped, NotMapped) ]

\* method1 takes no argument; m_args has a required and an optional argument
\* built with required=...; m_decl has an argument declared with
\* argument_required=True; m_fail raises; m_none has no callable
ClassMethods ==
    [ method1 |-> ModuleMethod(<<>>, Returns),
      m_args  |-> ModuleMethod(<< ModuleMethodArgument("a", FALSE, "True"),
                                  ModuleMethodArgument("b", FALSE, "False") >>, Returns),
      m_decl  |-> ModuleMethod(<< ModuleMethodArgument("a", TRUE, NoAttribute) >>, Returns),
      m_fail  |-> ModuleMethod(<<>>, "ValueError"),
      m_none  |-> ModuleMethod(<<>>, NotMapped) ]

_properties(mod_obj) ==
    IF get_module_type(mod_obj) = "module_two" THEN ClassProperties ELSE EmptyMap

_methods(mod_obj) ==
    IF get_module_type(mod_obj) = "module_two" THEN ClassMethods ELSE EmptyMap

\* a call of a callable of the plugin, recorded with the instance and the
\* name of the property or method
Invoke(m, kind, module_name, member, callable) ==
    IF callable = Returns
    THEN Ok(Called(m, kind, module_name, member), <<"value">>)
    ELSE Raise(Called(m, kind, module_name, member), callable)

get_property_value(m, module_name, property_name) ==
    LET props == _properties(m.loaded_modules[module_name])
    IN  IF property_name \in DOMAIN props
        THEN IF props[property_name].permissions \in {READ, RW}
             THEN IF props[property_name].getter # NotMapped
                  THEN Invoke(m, "getter", module_name, property_name,
                              props[property_name].getter)
                  ELSE Ok(m, None)
             ELSE Raise(m, "ModulePropertyPermissionError")
        ELSE Raise(m, "ModuleInvalidPropertyError")

\* a set that asks for no permission
SetUnchecked(m, module_name, property_name) ==
    Invoke(m, "setter", module_name, property_name, Returns)

set_property_value(m, module_name, property_name) ==
    LET props == _properties(m.loaded_modules[module_name])
    IN  IF property_name \in DOMAIN props
        THEN IF props[property_name].permissions \in {WRITE, RW}
             THEN IF props[property_name].setter # NotMapped
                  THEN Invoke(m, "setter", module_name, property_name,
                              props[property_name].setter)
                  ELSE Ok(m, None)
             ELSE Raise(m, "ModulePropertyPermissionError")
        ELSE Raise(m, "ModuleInvalidPropertyError")

\* for kwg, m_arg in method_args.items(): if m_arg.required and kwg not in kwargs
RECURSIVE CheckRequired(_, _)
CheckRequired(method_args, given) ==
    IF method_args = <<>> THEN NoExc
    ELSE IF Head(method_args).required = NoAttribute THEN "AttributeError"
    ELSE IF Head(method_args).required = "True" /\ Head(method_args).arg_name \notin given
    THEN "ModuleMethodError"
    ELSE CheckRequired(Tail(method_args), given)

ArgNames(method_args) == { method_args[i].arg_name : i \in 1..Len(method_args) }

call_method(m, module_name, method_name, kwargs) ==
    LET methods == _methods(m.loaded_modules[module_name])
    IN  IF method_name \in DOMAIN methods
        THEN LET method_args == methods[method_name].method_args
             IN  IF CheckRequired(method_args, kwargs.given) # NoExc
                 THEN Raise(m, CheckRequired(method_args, kwargs.given))
                 ELSE IF ~(kwargs.given \subseteq ArgNames(method_args))
                 THEN Raise(m, "ModuleMethodError")
                 ELSE IF methods[method_name].method_call # NotMapped
                 THEN Invoke(m, "method", module_name, method_name,
                             methods[method_name].method_call)
                 ELSE Ok(m, None)
        ELSE Raise(m, "ModuleMethodError")

\* {'status': 'error', 'error': kind} and {'status': 'ok'}
Tagged(kind) == <<"error", kind>>
StatusOk == <<"ok">>

\* the except clauses of get_module_property
GetAnswer(r) ==
    IF r.exc = "ModulePropertyPermissionError" THEN Ok(r.m, Tagged("write_only"))
    ELSE IF r.exc = "ModuleInvalidPropertyError" THEN Ok(r.m, Tagged("invalid_property"))
    ELSE IF r.exc = "KeyError" THEN Ok(r.m, Tagged("invalid_instance"))
    ELSE r

get_module_property(m, module_name, property_name) ==
    IF module_name \notin DOMAIN m.loaded_modules
    THEN \* self.loaded_modules[module_name] raises KeyError
         Ok(m, Tagged("invalid_instance"))
    ELSE GetAnswer(get_property_value(m, module_name, property_name))

\* the except clauses of set_module_property, and its return {'status': 'ok'}
SetAnswer(r) ==
    IF r.exc = "ModulePropertyPermissionError" THEN Ok(r.m, Tagged("read_only"))
    ELSE IF r.exc = "ModuleInvalidPropertyError" THEN Ok(r.m, Tagged("invalid_property"))
    ELSE IF r.exc = "KeyError" THEN Ok(r.m, Tagged("invalid_instance"))
    ELSE IF r.exc = NoExc THEN Ok(r.m, StatusOk)
    ELSE r

set_module_property(m, instance_name, property_name) ==
    IF instance_name \notin DOMAIN m.loaded_modules
    THEN Ok(m, Tagged("invalid_instance"))
    ELSE SetAnswer(set_property_value(m, instance_name, property_name))

\* except ModuleMethodError
CallAnswer(r) ==
    IF r.exc = "ModuleMethodError" THEN Ok(r.m, Tagged("call_failed")) ELSE r

call_module_method(m, instance_name, method_name, kwargs) ==
    IF instance_name \in DOMAIN m.loaded_modules
    THEN CallAnswer(call_method(m, instance_name, method_name, kwargs))
    ELSE Ok(m, Tagged("invalid_instance"))

\* an unload that announces itself on 'modman.module_unloaded'
Announced(r, module_name) ==
    IF r.exc # NoExc THEN r
    ELSE _trigger_hooks(r.m, "attached_hooks", "modman.module_unloaded",
                        KwArgs(module_name, "", {}))

UnloadAnnouncing(m, module_name) ==
    Announced(_unload_module(m, module_name, MODMAN), module_name)

unload_module(m, module_name) == _unload_module(m, module_name, MODMAN)

install_custom_hook(m, hook_name) == _install_custom_hook(m, hook_name, MODMAN)

install_custom_method(m, method_name, callback) ==
    _install_custom_method(m, method_name, callback, MODMAN)

install_interrupt_handler(m, interrupt_key, callback) ==
    _install_interrupt_handler(m, interrupt_key, callback, MODMAN)

\* an interrupt that nobody installed is ignored; the value returned by the
\* callback is dropped
external_interrupt(m, interrupt_key, kwargs) ==
    IF interrupt_key \in DOMAIN m.external_interrupts
    THEN Ok(Called(m, "interrupt", m.external_interrupts[interrupt_key].owner,
                   interrupt_key), None)
    ELSE Ok(m, None)

trigger_custom_hook(m, hook_name, kwargs) ==
    _trigger_hooks(m, "custom_hooks", hook_name, kwargs)

module_system_tick(m) ==
    _trigger_hooks([m EXCEPT !.tick_counter = @ + 1], "attached_hooks", "modman.tick",
                   KwArgs(None, "", {"uptime"}))

(***************************************************************************)
(* module_handler(which_module, **kwargs): the entry point given to every  *)
(* instance.  `items` is kwargs.items(), the operations in the order the   *)
(* loop visits them.  An operation that fails is reported to the calling   *)
(* instance with handler_communicate; `error` is the exception that the    *)
(* inner operation raised, `exc` the exception that leaves module_handler, *)
(* `done` says that the operation ended with a return statement.           *)
(***************************************************************************)
LOGGING_KWARGS == {"log_info", "log_warning", "log_error"}

Item(kwg, value) == [ kwg |-> kwg, value |-> value ]

\* except <errors>: the_module.handler_communicate(reason=..., exception=ex);
\* the load_module turn returns the name of the new instance
Answer(r, which_module, errors, reason, returns) ==
    IF r.exc \in errors THEN Communicate(r, which_module, reason)
    ELSE IF returns THEN Returned(r) ELSE Handled(r)

\* one turn of the loop over kwargs.items()
HandleItem(m, which_module, kwg, value) ==
    CASE kwg \in LOGGING_KWARGS ->
           Returned(Ok(m, None))
      [] kwg = "call_custom_method" ->
           HandleCallCustomMethod(m, which_module, value)
      [] kwg = "load_module" ->
           Answer(_load_module(m, value.method, which_module, value.args), which_module,
                  {"ModuleLoadError", "ModuleAlreadyLoadedError"},
                  "load_module_failed", TRUE)
      [] kwg = "unload_module" ->
           Answer(_unload_module(m, value, which_module), which_module,
                  {"ModuleNotLoadedError", "CannotUnloadError"},
                  "unload_module_failed", FALSE)
      [] kwg = "install_custom_hook" ->
           Answer(_install_custom_hook(m, value, which_module), which_module,
                  {"HookAlreadyInstalledError"}, "install_hook_failed", FALSE)
      [] kwg = "install_custom_method" ->
           Answer(_install_custom_method(m, value.method, value.callback, which_module),
                  which_module,
                  {"MethodAlreadyInstalledError"}, "install_method_failed", FALSE)
      [] kwg = "install_interrupt_handler" ->
           Answer(_install_interrupt_handler(m, value.interrupt, value.callback,
                                             which_module), which_module,
                  {"InterruptAlreadyInstalledError"}, "install_interrupt_failed", FALSE)
      [] kwg = "attach_custom_hook" ->
           Answer(attach_custom_hook(m, value.hook, value.args.callback,
                                     value.args.action, value.args.argument),
                  which_module, {"HookNotAvailableError"}, "attach_hook_failed", FALSE)
      [] kwg = "attach_manager_hook" ->
           Answer(attach_manager_hook(m, value.hook, value.args.callback,
                                      value.args.action, value.args.argument),
                  which_module, {"HookNotAvailableError"}, "attach_hook_failed", FALSE)
      [] kwg = "require_module_instance" ->
           IF value \notin DOMAIN m.loaded_modules
           THEN Handled(Raise(m, "ModuleLoadError"))
           ELSE Handled(Ok(m, None))
      [] OTHER -> Handled(Ok(m, None))

\* for kwg, value in kwargs.items(): ...
RECURSIVE HandleItems(_, _, _, _, _)

\* after the turn for items[i] answered r: the handler is left when the turn
\* raised or returned, and goes on with the next keyword otherwise
AfterItem(r, which_module, items, i, error) ==
    LET failed == IF r.error # NoExc THEN r.error ELSE error
    IN  IF r.exc # NoExc \/ r.done
        THEN [ m |-> r.m, exc |-> r.exc, ret |-> r.ret, error |-> failed ]
        ELSE HandleItems(r.m, which_module, items, i + 1, failed)

HandleItems(m, which_module, items, i, error) ==
    IF i > Len(items)
    THEN [ m |-> m, exc |-> NoExc, ret |-> None, error |-> error ]
    ELSE AfterItem(HandleItem(m, which_module, items[i].kwg, items[i].value),
                   which_module, items, i, error)

module_handler(m, which_module, items) ==
    HandleItems(m, which_module, items, 1, NoExc)

\* a public method of the manager called by the embedding application
Direct(r) == [ m |-> r.m, exc |-> r.exc, ret |-> r.ret, error |-> r.exc ]

(***************************************************************************)
(* State machine.  Every action is one public call, run to completion      *)
(* (the manager is single threaded; nested loads, unloads and hook         *)
(* firings happen inside the call).                                        *)
(***************************************************************************)

Self ==
    [ pyver |-> pyver, found_modules |-> found_modules,
      loaded_modules |-> loaded_modules, attached_hooks |-> attached_hooks,
      custom_hooks |-> custom_hooks, custom_methods |-> custom_methods,
      external_interrupts |-> external_interrupts, scripts |-> scripts,
      deferred_scripts |-> deferred_scripts,
      deferred_discoveries |-> deferred_discoveries,
      discovery_active |-> discovery_active, tick_counter |-> tick_counter,
      log |-> <<>>, deleted |-> EmptyMap, depth |-> 0 ]

Event(op, who, target, kwargs, r) ==
    [ op |-> op, who |-> who, target |-> target, kwargs |-> kwargs,
      exc |-> r.exc, error |-> r.error, ret |-> r.ret ]

NoStreak == [ type |-> "", rets |-> <<>> ]

\* no loaded instance is named T or T-<n>
Clean(module_name) ==
    \A n \in DOMAIN loaded_modules :
        n # <<module_name>>
            /\ ~(Len(n) = 2 /\ n[1] = module_name /\ ToInt(n[2]) >= 0)

\* the names returned by the latest run of up to three consecutive successful
\* default-name loads of one type that started with no T or T-<n> loaded
StreakAfter(op, target, kwargs, r) ==
    IF /\ op \in {"load_module", "handler.load_module"}
       /\ kwargs = NoKwArgs
       /\ r.error = NoExc
    THEN IF streak.type = target[1] /\ Len(streak.rets) < 3
         THEN [ type |-> streak.type, rets |-> Append(streak.rets, r.ret) ]
         ELSE IF Clean(target[1])
         THEN [ type |-> target[1], rets |-> <<r.ret>> ]
         ELSE NoStreak
    ELSE NoStreak

Bounded(m) ==
    /\ Cardinality(DOMAIN m.loaded_modules) <= MaxLoaded
    /\ \A n \in DOMAIN m.loaded_modules :
         \A i \in 2..Len(n) : ToInt(n[i]) <= MaxSuffix
    /\ \A h \in DOMAIN m.attached_hooks :
         Len(m.attached_hooks[h].attached_callbacks) <= MaxAttached
    /\ \A h \in DOMAIN m.custom_hooks :
         Len(m.custom_hooks[h].attached_callbacks) <= MaxAttached
    /\ m.tick_counter <= MaxTick

Commit(op, who, target, kwargs, r) ==
    /\ Bounded(r.m)
    /\ pyver' = pyver
    /\ found_modules' = r.m.found_modules
    /\ loaded_modules' = r.m.loaded_modules
    /\ attached_hooks' = r.m.attached_hooks
    /\ custom_hooks' = r.m.custom_hooks
    /\ custom_methods' = r.m.custom_methods
    /\ external_interrupts' = r.m.external_interrupts
    /\ scripts' = r.m.scripts
    /\ deferred_scripts' = r.m.deferred_scripts
    /\ deferred_discoveries' = r.m.deferred_discoveries
    /\ discovery_active' = r.m.discovery_active
    /\ tick_counter' = r.m.tick_counter
    /\ ev' = Event(op, who, target, kwargs, r)
    /\ log' = r.m.log
    /\ streak' = StreakAfter(op, target, kwargs, r)

Init ==
    /\ pyver \in {2, 3}
    /\ found_modules = {}
    /\ loaded_modules = EmptyMap
    /\ attached_hooks = [ h \in ManagerHooks |-> ModuleManagerHook(MODMAN) ]
    /\ custom_hooks = EmptyMap
    /\ custom_methods = EmptyMap
    /\ external_interrupts = EmptyMap
    /\ scripts = {}
    /\ deferred_scripts = EmptyMap
    /\ deferred_discoveries = <<>>
    /\ discovery_active = FALSE
    /\ tick_counter = 0
    /\ ev = Event("__init__", MODMAN, None, NoKwArgs,
                  [ exc |-> NoExc, error |-> NoExc, ret |-> None ])
    /\ log = <<>>
    /\ streak = NoStreak

InsertModule(module_class) ==
    /\ module_class \notin found_modules
    /\ Commit("insert_module", MODMAN, <<module_class>>, NoKwArgs,
              Direct(insert_module(Self, module_class)))

LoadModule(module_name, kwargs) ==
    Commit("load_module", MODMAN, <<module_name>>, kwargs,
           Direct(load_module(Self, module_name, kwargs)))

UnloadModule(module_name) ==
    Commit("unload_module", MODMAN, module_name, NoKwArgs,
           Direct(unload_module(Self, module_name)))

HandlerLoadModule(which_module, module_name, kwargs) ==
    Commit("handler.load_module", which_module, <<module_name>>, kwargs,
           module_handler(Self, which_module,
                          << Item("load_module",
                                  [ method |-> module_name, args |-> kwargs ]) >>))

HandlerUnloadModule(which_module, module_name) ==
    Commit("handler.unload_module", which_module, module_name, NoKwArgs,
           module_handler(Self, which_module, << Item("unload_module", module_name) >>))

HandlerInstallCustomHook(which_module, hook_name) ==
    Commit("handler.install_custom_hook", which_module, <<hook_name>>, NoKwArgs,
           module_handler(Self, which_module,
                          << Item("install_custom_hook", hook_name) >>))

HandlerInstallCustomMethod(which_module, method_name) ==
    Commit("handler.install_custom_method", which_module, <<method_name>>, NoKwArgs,
           module_handler(Self, which_module,
                          << Item("install_custom_method",
                                  [ method |-> method_name,
                                    callback |-> Callback(which_module, "truthy") ]) >>))

HandlerInstallInterruptHandler(which_module, interrupt_key) ==
    Commit("handler.install_interrupt_handler", which_module, <<interrupt_key>>, NoKwArgs,
           module_handler(Self, which_module,
                          << Item("install_interrupt_handler",
                                  [ interrupt |-> interrupt_key,
                                    callback |-> Callback(which_module, "truthy") ]) >>))

InstallCustomHook(hook_name) ==
    Commit("install_custom_hook", MODMAN, <<hook_name>>, NoKwArgs,
           Direct(install_custom_hook(Self, hook_name)))

HandlerAttachCustomHook(which_module, attach_to, attacher) ==
    Commit("handler.attach_custom_hook", which_module, <<attach_to>>, NoKwArgs,
           module_handler(Self, which_module,
                          << Item("attach_custom_hook",
                                  [ hook |-> attach_to, args |-> attacher ]) >>))

HandlerAttachManagerHook(which_module, attach_to, attacher) ==
    Commit("handler.attach_manager_hook", which_module, <<attach_to>>, NoKwArgs,
           module_handler(Self, which_module,
                          << Item("attach_manager_hook",
                                  [ hook |-> attach_to, args |-> attacher ]) >>))

AttachCustomHook(attach_to, attacher) ==
    Commit("attach_custom_hook", MODMAN, <<attach_to>>, NoKwArgs,
           Direct(attach_custom_hook(Self, attach_to, attacher.callback,
                                     attacher.action, attacher.argument)))

\* queries of the application: through the manager, and on the instance
\* object itself as tests/test_args.py does; the event names the instance
\* followed by the property or method
GetModuleProperty(module_name, property_name) ==
    Commit("get_module_property", MODMAN, Append(module_name, property_name), NoKwArgs,
           Direct(get_module_property(Self, module_name, property_name)))

SetModuleProperty(instance_name, property_name) ==
    Commit("set_module_property", MODMAN, Append(instance_name, property_name), NoKwArgs,
           Direct(set_module_property(Self, instance_name, property_name)))

CallModuleMethod(instance_name, method_name, kwargs) ==
    Commit("call_module_method", MODMAN, Append(instance_name, method_name), kwargs,
           Direct(call_module_method(Self, instance_name, method_name, kwargs)))

GetPropertyValue(module_name, property_name) ==
    Commit("get_property_value", MODMAN, Append(module_name, property_name), NoKwArgs,
           Direct(get_property_value(Self, module_name, property_name)))

SetPropertyValue(module_name, property_name) ==
    Commit("set_property_value", MODMAN, Append(module_name, property_name), NoKwArgs,
           Direct(set_property_value(Self, module_name, property_name)))

CallMethod(module_name, method_name, kwargs) ==
    Commit("call_method", MODMAN, Append(module_name, method_name), kwargs,
           Direct(call_method(Self, module_name, method_name, kwargs)))

InstallCustomMethod(method_name, callback) ==
    Commit("install_custom_method", MODMAN, <<method_name>>, NoKwArgs,
           Direct(install_custom_method(Self, method_name, callback)))

InstallInterruptHandler(interrupt_key, callback) ==
    Commit("install_interrupt_handler", MODMAN, <<interrupt_key>>, NoKwArgs,
           Direct(install_interrupt_handler(Self, interrupt_key, callback)))

CallCustomMethod(method_name) ==
    Commit("call_custom_method", MODMAN, <<method_name>>, NoKwArgs,
           Direct(call_custom_method(Self, method_name)))

ExternalInterrupt(interrupt_key, kwargs) ==
    Commit("external_interrupt", MODMAN, <<interrupt_key>>, kwargs,
           Direct(external_interrupt(Self, interrupt_key, kwargs)))

AttachManagerHook(attach_to, attacher) ==
    Commit("attach_manager_hook", MODMAN, <<attach_to>>, NoKwArgs,
           Direct(attach_manager_hook(Self, attach_to, attacher.callback,
                                      attacher.action, attacher.argument)))

TriggerCustomHook(hook_name, kwargs) ==
    Commit("trigger_custom_hook", MODMAN, <<hook_name>>, kwargs,
           Direct(trigger_custom_hook(Self, hook_name, kwargs)))

ModuleSystemTick ==
    Commit("module_system_tick", MODMAN, None, NoKwArgs,
           Direct(module_system_tick(Self)))

ModuleHandler(which_module, items) ==
    Commit("module_handler", which_module,
           [ i \in 1..Len(items) |-> items[i].kwg ], NoKwArgs,
           module_handler(Self, which_module, items))

DiscoverScripts(script_files) ==
    Commit("discover_scripts", MODMAN, script_files, NoKwArgs,
           Direct(DiscoverEach(Self, script_files)))

DiscoverModules(module_list) ==
    Commit("discover_modules", MODMAN, module_list, NoKwArgs,
           Direct(discover_modules(Self, module_list)))

(***************************************************************************)
(* Inputs.                                                                 *)
(***************************************************************************)
\* the embedding application registers the plugin classes in this order
InsertOrder == <<"alpha", "beta", "gamma">>

NextToInsert(types) ==
    { InsertOrder[i] : i \in { k \in 1..Len(InsertOrder) :
        /\ InsertOrder[k] \in types \ found_modules
        /\ \A l \in 1..(k - 1) : InsertOrder[l] \in found_modules } }

\* the classes that take part in the hook, ownership and script scenarios
LoadTypes == {"alpha", "beta"}

\* load requests of the embedding application: default names for every
\* class, an explicit suffix for the multi-instance class, an explicit name
\* and suffix for the single-instance class
LoadRequests(types) ==
    { <<t, NoKwArgs>> : t \in types }
        \cup { <<"beta", KwArgs(None, "1", {})>>,
               <<"alpha", KwArgs(<<"x">>, "1", {})>> }

HookNames == {"h"}
MethodNames == {"m"}
InterruptKeys == {"i"}

Loaded == DOMAIN loaded_modules

\* alpha is the plugin class whose instances load other modules through the
\* dispatcher
Loaders == { w \in Loaded : get_module_type(loaded_modules[w]) = "alpha" }

\* beta is the plugin class whose instances install hooks, methods and
\* interrupt handlers and attach to hooks
Installers == { w \in Loaded : get_module_type(loaded_modules[w]) = "beta" }

\* what an instance attaches: a bound method of its own, with no argument or
\* with itself as argument
OwnAttachers(which_module) ==
    { HookAttacher(Callback(which_module, "truthy"), NO_ACTION, ArgNone),
      HookAttacher(Callback(which_module, "truthy"), NO_ACTION, ArgInst(which_module)) }

(***************************************************************************)
(* Spec: instance naming and ownership.                                    *)
(***************************************************************************)
NamingTypes == {"alpha", "beta", "gamma"}

Next ==
    \/ \E t \in NextToInsert(NamingTypes) : InsertModule(t)
    \/ \E rq \in LoadRequests(NamingTypes) : LoadModule(rq[1], rq[2])
    \/ \E n \in Loaded : UnloadModule(n)
    \/ \E w \in Loaders, t \in NamingTypes : HandlerLoadModule(w, t, NoKwArgs)
    \/ \E w \in Loaded, n \in Loaded : HandlerUnloadModule(w, n)

Spec == Init /\ [][Next]_vars

(***************************************************************************)
(* SpecOwn: what an instance installs and what its unload removes.         *)
(***************************************************************************)
NextOwn ==
    \/ \E t \in NextToInsert(LoadTypes) : InsertModule(t)
    \/ \E t \in LoadTypes : LoadModule(t, NoKwArgs)
    \/ \E n \in Loaded : UnloadModule(n)
    \/ \E w \in Loaders : HandlerLoadModule(w, "beta", NoKwArgs)
    \/ \E w \in Loaded, n \in Loaded : HandlerUnloadModule(w, n)
    \/ \E w \in Installers, h \in HookNames : HandlerInstallCustomHook(w, h)
    \/ \E w \in Installers, k \in MethodNames : HandlerInstallCustomMethod(w, k)
    \/ \E w \in Installers, k \in InterruptKeys : HandlerInstallInterruptHandler(w, k)

SpecOwn == Init /\ [][NextOwn]_vars

(***************************************************************************)
(* SpecAttach: custom hooks, attachments, firing and the unload cascade.   *)
(***************************************************************************)
NextAttach ==
    \/ InsertModule("beta")
    \/ LoadModule("beta", NoKwArgs)
    \/ \E n \in Loaded : UnloadModule(n)
    \/ \E w \in Loaded, h \in HookNames : HandlerInstallCustomHook(w, h)
    \/ \E h \in HookNames : InstallCustomHook(h)
    \/ \E w \in Loaded, h \in HookNames : \E a \in OwnAttachers(w) :
           HandlerAttachCustomHook(w, h, a)
    \/ \E h \in HookNames : TriggerCustomHook(h, NoKwArgs)

SpecAttach == Init /\ [][NextAttach]_vars

(***************************************************************************)
(* SpecTick: attachments to the manager's own hooks and the timer.         *)
(***************************************************************************)
NextTick ==
    \/ InsertModule("beta")
    \/ LoadModule("beta", NoKwArgs)
    \/ \E n \in Loaded : UnloadModule(n)
    \/ \E w \in Loaded : \E a \in OwnAttachers(w) :
           HandlerAttachManagerHook(w, "modman.tick", a)
    \/ ModuleSystemTick

SpecTick == Init /\ [][NextTick]_vars

(***************************************************************************)
(* SpecDefer: scripts that wait for an instance, and their replay.         *)
(***************************************************************************)
ScriptLists == { <<script>> : script \in {"s_sym", "s_req", "s_any"} }

NextDefer ==
    \/ \E t \in NextToInsert(LoadTypes) : InsertModule(t)
    \/ \E rq \in LoadRequests(LoadTypes) : LoadModule(rq[1], rq[2])
    \/ \E n \in Loaded : UnloadModule(n)
    \/ \E script_files \in ScriptLists : DiscoverScripts(script_files)

SpecDefer == Init /\ [][NextDefer]_vars

(***************************************************************************)
(* SpecDisc: plugin discovery with deferred candidates.                    *)
(***************************************************************************)
MaxList == 3          \* candidates named in MODULES

Candidates == DOMAIN PluginDirs \cup {"__init__"}

ModuleLists ==
    { module_list \in UNION { [1..n -> Candidates] : n \in 1..MaxList } :
        \A i, j \in DOMAIN module_list : i # j => module_list[i] # module_list[j] }

\* discovery runs at start-up: nothing is discovered or deferred yet, apart
\* from a class the application inserted by hand
StartUp == found_modules \subseteq {"alpha"} /\ deferred_discoveries = <<>>

NextDisc ==
    \/ \E module_list \in ModuleLists : StartUp /\ DiscoverModules(module_list)
    \/ StartUp /\ InsertModule("alpha")

SpecDisc == Init /\ [][NextDisc]_vars

(***************************************************************************)
(* SpecHandler: the requests an instance makes through module_handler,     *)
(* one keyword per call, and a class whose __init__ makes a request.       *)
(***************************************************************************)
WithUid == KwArgs(None, "", {"uid"})

Requests(which_module) ==
    << Item("call_custom_method", "m"),
      Item("attach_custom_hook",
           [ hook |-> "h",
             args |-> HookAttacher(Callback(which_module, "truthy"), NO_ACTION, ArgNone) ]),
      Item("load_module", [ method |-> "dummy", args |-> WithUid ]),
      Item("install_custom_hook", "h"),
      Item("install_custom_method",
           [ method |-> "m", callback |-> Callback(which_module, "truthy") ]),
      Item("install_interrupt_handler",
           [ interrupt |-> "i", callback |-> Callback(which_module, "truthy") ]) >>
        \o LET names == SetToSeq(Loaded \cup { <<"dummy">> })
           IN  [ i \in 1..Len(names) |-> Item("unload_module", names[i]) ]

\* the instance that makes the requests: the first instance of beta
Issuers == Loaded \cap { <<"beta">> }

NextHandler ==
    \/ \E t \in {"beta", "dummy"} : InsertModule(t)
    \/ LoadModule("beta", NoKwArgs)
    \/ LoadModule("dummy", WithUid)
    \/ \E n \in Loaded : UnloadModule(n)
    \/ \E w \in Issuers : \E k \in 1..Len(Requests(w)) :
           ModuleHandler(w, << Requests(w)[k] >>)

SpecHandler == Init /\ [][NextHandler]_vars

(***************************************************************************)
(* SpecMulti: module_handler calls that carry several keywords.  The loop  *)
(* visits them in the order of kwargs.items(): the order the caller wrote  *)
(* them in on Python 3, an order the caller does not control on Python 2.  *)
(***************************************************************************)
MaxOps == 2           \* keywords in one module_handler call

Operations(which_module) ==
    << Item("load_module", [ method |-> "beta", args |-> NoKwArgs ]),
       Item("install_custom_hook", "h"),
       Item("call_custom_method", "m"),
       Item("require_module_instance", <<"beta", "1">>),
       Item("log_info", "message"),
       Item("frobnicate", "anything") >>

\* the orders in which up to MaxOps different keywords are visited
Orders(n) ==
    { order \in UNION { [1..k -> 1..n] : k \in 1..MaxOps } :
        \A i, j \in DOMAIN order : i # j => order[i] # order[j] }

NextMulti ==
    \/ InsertModule("beta")
    \/ LoadModule("beta", NoKwArgs)
    \/ \E n \in Loaded : UnloadModule(n)
    \/ \E w \in Issuers : \E order \in Orders(Len(Operations(w))) :
           ModuleHandler(w, [ i \in DOMAIN order |-> Operations(w)[order[i]] ])

SpecMulti == Init /\ [][NextMulti]_vars

(***************************************************************************)
(* SpecFire: a custom hook of the application with attachments that raise, *)
(* load and unload, and its firing.                                        *)
(***************************************************************************)
Ext(k) == <<"ext", k>>

AppAttachers ==
    { HookAttacher(Callback(Ext("1"), "raises"), NO_ACTION, ArgNone),
      HookAttacher(Callback(Ext("2"), "truthy"), UNLOAD_MODULE, ArgInst(<<"beta">>)),
      HookAttacher(Callback(Ext("3"), "truthy"), LOAD_MODULE, ArgClass("alpha")),
      HookAttacher(Callback(Ext("4"), "truthy"), LOAD_MODULE, ArgClass("beta")),
      HookAttacher(Callback(Ext("5"), "falsy"), LOAD_MODULE, ArgClass("beta")) }

\* the keyword arguments of the event
EventArgs == { NoKwArgs, KwArgs(None, "", {"x"}) }

NextFire ==
    \/ \E t \in NextToInsert(LoadTypes) : InsertModule(t)
    \/ LoadModule("beta", NoKwArgs)
    \/ \E n \in Loaded : UnloadModule(n)
    \/ \E h \in HookNames : InstallCustomHook(h)
    \/ \E h \in HookNames, a \in AppAttachers : AttachCustomHook(h, a)
    \/ \E h \in HookNames, kwargs \in EventArgs : TriggerCustomHook(h, kwargs)

SpecFire == Init /\ [][NextFire]_vars

(***************************************************************************)
(* SpecNotify: the module_loaded hook and the callbacks of the             *)
(* application that watch it.                                              *)
(***************************************************************************)
Watchers ==
    { HookAttacher(Callback(Ext("1"), "truthy"), NO_ACTION, ArgNone),
      HookAttacher(Callback(Ext("2"), "falsy"), NO_ACTION, ArgNone) }

NextNotify ==
    \/ \E t \in NextToInsert(LoadTypes) : InsertModule(t)
    \/ \E rq \in LoadRequests(LoadTypes) : LoadModule(rq[1], rq[2])
    \/ \E n \in Loaded : UnloadModule(n)
    \/ \E w \in Loaders : HandlerLoadModule(w, "beta", NoKwArgs)
    \/ \E a \in Watchers : AttachManagerHook("modman.module_loaded", a)

SpecNotify == Init /\ [][NextNotify]_vars

(***************************************************************************)
(* SpecArgs: loads of classes that require construction arguments.         *)
(***************************************************************************)
ArgTypes == {"test_mod", "multi_mod"}

\* tests/test_args.py loads test_mod with optional_kw1 only, then with
\* required_kw1 and optional_kw1
ArgSets == { KwArgs(None, "", {"optional_kw1"}),
             KwArgs(None, "", {"required_kw1", "optional_kw1"}) }

NextArgs ==
    \/ \E t \in ArgTypes : InsertModule(t)
    \/ \E t \in ArgTypes, kwargs \in ArgSets : LoadModule(t, kwargs)
    \/ \E n \in Loaded : UnloadModule(n)
    \/ \E h \in HookNames : InstallCustomHook(h)
    \/ DiscoverScripts(<<"s_kw">>)

SpecArgs == Init /\ [][NextArgs]_vars

(***************************************************************************)
(* SpecQuery: property and method queries.                                 *)
(***************************************************************************)
PropertyNames == DOMAIN ClassProperties \cup {"some_property"}
QueryMethods == DOMAIN ClassMethods \cup {"nonexisting_method"}
QueryInstances == { <<"module_two">>, <<"alpha">> }
CallArgs == { KwArgs(None, "", given) : given \in SUBSET {"a", "b", "some"} }

NextQuery ==
    \/ \E t \in {"module_two", "alpha"} : InsertModule(t)
    \/ \E t \in {"module_two", "alpha"} : LoadModule(t, NoKwArgs)
    \/ \E n \in Loaded : UnloadModule(n)
    \/ \E n \in QueryInstances, p \in PropertyNames : GetModuleProperty(n, p)
    \/ \E n \in QueryInstances, p \in PropertyNames : SetModuleProperty(n, p)
    \/ \E n \in QueryInstances, k \in QueryMethods, kwargs \in CallArgs :
           CallModuleMethod(n, k, kwargs)
    \/ \E n \in Loaded, p \in PropertyNames : GetPropertyValue(n, p)
    \/ \E n \in Loaded, p \in PropertyNames : SetPropertyValue(n, p)
    \/ \E n \in Loaded, k \in QueryMethods, kwargs \in CallArgs : CallMethod(n, k, kwargs)

SpecQuery == Init /\ [][NextQuery]_vars

(***************************************************************************)
(* SpecTables: the hook, method and interrupt tables, filled by the        *)
(* application and by a loaded instance, and the calls that name an entry. *)
(***************************************************************************)
\* the function the application installs as method or interrupt handler
AppCallback == Callback(Ext("1"), "truthy")

\* what the application attaches
AppWatcher == HookAttacher(Callback(Ext("2"), "truthy"), NO_ACTION, ArgNone)

\* the hooks of the manager an attachment may name: a system hook and a
\* name that is no system hook
TickOrNot == {"modman.tick", "h"}

NextTables ==
    \/ InsertModule("alpha")
    \/ LoadModule("alpha", NoKwArgs)
    \/ \E n \in Loaded : UnloadModule(n)
    \/ \E h \in HookNames : InstallCustomHook(h)
    \/ \E k \in MethodNames : InstallCustomMethod(k, AppCallback)
    \/ \E k \in InterruptKeys : InstallInterruptHandler(k, AppCallback)
    \/ \E w \in Loaded, h \in HookNames : HandlerInstallCustomHook(w, h)
    \/ \E w \in Loaded, k \in MethodNames : HandlerInstallCustomMethod(w, k)
    \/ \E w \in Loaded, k \in InterruptKeys : HandlerInstallInterruptHandler(w, k)
    \/ \E h \in HookNames : AttachCustomHook(h, AppWatcher)
    \/ \E w \in Loaded, h \in HookNames : \E a \in OwnAttachers(w) :
           HandlerAttachCustomHook(w, h, a)
    \/ \E h \in TickOrNot : AttachManagerHook(h, AppWatcher)
    \/ \E k \in MethodNames : CallCustomMethod(k)
    \/ \E k \in InterruptKeys, kwargs \in EventArgs : ExternalInterrupt(k, kwargs)

SpecTables == Init /\ [][NextTables]_vars

(***************************************************************************)
(* SpecCycle: repeated discovery passes over candidates that require each  *)
(* other, with entries left in deferred_discoveries by an earlier pass and *)
(* types inserted by hand between the passes.                              *)
(***************************************************************************)
CycleCandidates == {"mu", "nu", "alpha", "gamma"}

CycleLists ==
    { module_list \in ModuleLists :
        Len(module_list) <= 2
            /\ \A i \in DOMAIN module_list : module_list[i] \in CycleCandidates }

NextCycle ==
    \/ \E module_list \in CycleLists : DiscoverModules(module_list)
    \/ \E t \in {"mu", "nu"} : InsertModule(t)

SpecCycle == Init /\ [][NextCycle]_vars

(***************************************************************************)
(* SpecGuard: instances loaded by the application that ask, through the    *)
(* dispatcher, for the unload of one another: directly, and by attaching   *)
(* an unloading callback to the timer hook.                                *)
(***************************************************************************)
\* what an instance attaches to have an instance unloaded
Unloaders(which_module) ==
    { HookAttacher(Callback(which_module, "truthy"), UNLOAD_MODULE, ArgInst(n)) :
        n \in Loaded }

NextGuard ==
    \/ InsertModule("beta")
    \/ LoadModule("beta", NoKwArgs)
    \/ \E w \in Loaded, n \in Loaded : HandlerUnloadModule(w, n)
    \/ \E w \in Loaded : \E a \in Unloaders(w) :
           HandlerAttachManagerHook(w, "modman.tick", a)
    \/ ModuleSystemTick

SpecGuard == Init /\ [][NextGuard]_vars

(***************************************************************************)
(* SpecInit: a class whose constructor talks to the dispatcher before the  *)
(* instance is registered (tests/test_args.py), the instance it requires,  *)
(* and the entries the application installs under the same names.          *)
(***************************************************************************)
HandlerRequireModuleInstance(which_module, module_name) ==
    Commit("handler.require_module_instance", which_module, module_name, NoKwArgs,
           module_handler(Self, which_module,
                          << Item("require_module_instance", module_name) >>))

TestModules == {"module_one", "module_two"}

NextInit ==
    \/ \E t \in TestModules : InsertModule(t)
    \/ \E t \in TestModules : LoadModule(t, NoKwArgs)
    \/ \E n \in Loaded : UnloadModule(n)
    \/ \E w \in Loaded, t \in TestModules : HandlerRequireModuleInstance(w, <<t>>)
    \/ \E h \in HookNames : InstallCustomHook(h)
    \/ \E k \in MethodNames : InstallCustomMethod(k, AppCallback)
    \/ \E k \in InterruptKeys : InstallInterruptHandler(k, AppCallback)
    \/ ModuleSystemTick

SpecInit == Init /\ [][NextInit]_vars

(***************************************************************************)
(* SpecReplay: scripts that wait for an instance while the application has *)
(* attachments on the hook that announces a load.                          *)
(***************************************************************************)
\* what the application attaches to 'modman.module_loaded': an observer and
\* an attachment that unloads the instance 'alpha'
LoadWatchers ==
    { AppWatcher,
      HookAttacher(AppCallback, UNLOAD_MODULE, ArgInst(<<"alpha">>)) }

NextReplay ==
    \/ \E t \in NextToInsert(LoadTypes) : InsertModule(t)
    \/ \E rq \in LoadRequests(LoadTypes) : LoadModule(rq[1], rq[2])
    \/ \E n \in Loaded : UnloadModule(n)
    \/ \E script_files \in ScriptLists : DiscoverScripts(script_files)
    \/ \E a \in LoadWatchers : AttachManagerHook("modman.module_loaded", a)

SpecReplay == Init /\ [][NextReplay]_vars

(***************************************************************************)
(* SpecKeep: methods and interrupt handlers of the application and of an   *)
(* instance, where the application chooses the name of the instance.       *)
(***************************************************************************)
\* the names the application gives: the default one and the name under
\* which the manager records its own entries
GivenNames == { NoKwArgs, KwArgs(MODMAN, "", {}) }

NextKeep ==
    \/ InsertModule("alpha")
    \/ \E kwargs \in GivenNames : LoadModule("alpha", kwargs)
    \/ \E n \in Loaded : UnloadModule(n)
    \/ \E k \in MethodNames : InstallCustomMethod(k, AppCallback)
    \/ \E k \in InterruptKeys : InstallInterruptHandler(k, AppCallback)
    \/ \E w \in Loaded, k \in MethodNames : HandlerInstallCustomMethod(w, k)
    \/ \E w \in Loaded, k \in InterruptKeys : HandlerInstallInterruptHandler(w, k)
    \/ \E k \in MethodNames : CallCustomMethod(k)
    \/ \E k \in InterruptKeys, kwargs \in EventArgs : ExternalInterrupt(k, kwargs)
    \/ \E h \in TickOrNot : AttachManagerHook(h, AppWatcher)
    \/ ModuleSystemTick

SpecKeep == Init /\ [][NextKeep]_vars

(***************************************************************************)
(* SpecHook: the methods of one ModuleManagerHook object, called on the    *)
(* hook 'h' of the application with attachments that differ in callback,   *)
(* in action or in argument only.                                          *)
(***************************************************************************)
Attachments ==
    << HookAttacher(Callback(Ext("1"), "truthy"), NO_ACTION, ArgNone),
       HookAttacher(Callback(Ext("1"), "truthy"), NO_ACTION, ArgInst(<<"beta">>)),
       HookAttacher(Callback(Ext("1"), "truthy"), UNLOAD_MODULE, ArgInst(<<"beta">>)),
       HookAttacher(Callback(Ext("2"), "truthy"), NO_ACTION, ArgNone) >>

\* self.custom_hooks[hook_name].attach_callback(Attachments[i])
AttachCallback(hook_name, i) ==
    /\ hook_name \in DOMAIN custom_hooks
    /\ Commit("attach_callback", MODMAN, <<hook_name, ToStr(i)>>, NoKwArgs,
              Direct(Ok([Self EXCEPT !.custom_hooks[hook_name] =
                             attach_callback(@, Attachments[i])], None)))

\* self.custom_hooks[hook_name].detach_callback(Attachments[i])
DetachCallback(hook_name, i) ==
    /\ hook_name \in DOMAIN custom_hooks
    /\ Commit("detach_callback", MODMAN, <<hook_name, ToStr(i)>>, NoKwArgs,
              Direct(Ok([Self EXCEPT !.custom_hooks[hook_name] =
                             detach_callback(@, Attachments[i])], None)))

NextHook ==
    \/ \E h \in HookNames : InstallCustomHook(h)
    \/ \E h \in HookNames, i \in DOMAIN Attachments : AttachCallback(h, i)
    \/ \E h \in HookNames, i \in DOMAIN Attachments : DetachCallback(h, i)

SpecHook == Init /\ [][NextHook]_vars

(***************************************************************************)
(* SpecSilent: callbacks of the application and of the first instance      *)
(* attached to the manager's hooks, 'modman.module_unloaded' among them,   *)
(* while instances come and go.                                            *)
(***************************************************************************)
NextSilent ==
    \/ InsertModule("beta")
    \/ LoadModule("beta", NoKwArgs)
    \/ \E n \in Loaded : UnloadModule(n)
    \/ \E w \in Loaded, n \in Loaded : HandlerUnloadModule(w, n)
    \/ \E h \in {"modman.module_unloaded", "modman.tick"} :
           AttachManagerHook(h, AppWatcher)
    \/ \E w \in Loaded \cap {<<"beta">>} : \E a \in OwnAttachers(w) :
           HandlerAttachManagerHook(w, "modman.module_unloaded", a)
    \/ \E h \in HookNames : InstallCustomHook(h)
    \/ \E h \in HookNames : AttachCustomHook(h, AppWatcher)
    \/ \E h \in HookNames : TriggerCustomHook(h, NoKwArgs)
    \/ ModuleSystemTick

SpecSilent == Init /\ [][NextSilent]_vars

(***************************************************************************)
(* Properties.                                                             *)
(***************************************************************************)
Unloads == {"unload_module", "handler.unload_module"}
Loads == {"load_module", "handler.load_module"}

Tables == <<found_modules, loaded_modules, attached_hooks, custom_hooks,
            custom_methods, external_interrupts, scripts, deferred_scripts,
            deferred_discoveries>>

\* C1: an instance X is unloaded only at the request of the instance recorded
\* as its loaded_by or of 'modman'; any other requester gets
\* CannotUnloadError, X stays loaded, its module_unload is not invoked and
\* no table of the manager changes.
C1_UnloadOnlyByOwner ==
    [][ \A X \in DOMAIN loaded_modules :
          LET owner == get_loaded_kwargs(loaded_modules[X], "loaded_by")
          IN  /\ ( /\ ev'.op \in Unloads
                   /\ ev'.target = X
                   /\ ev'.who # owner
                   /\ ev'.who # MODMAN )
                 => /\ ev'.error = "CannotUnloadError"
                    /\ X \in DOMAIN loaded_modules'
                    /\ \A i \in 1..Len(log') : log'[i].call # "module_unload"
                    /\ UNCHANGED Tables
              /\ X \notin DOMAIN loaded_modules'
                 => /\ ev'.op \in Unloads
                    /\ ev'.target = X
                    /\ ev'.who \in {owner, MODMAN} ]_vars

\* a third instance asked for the unload of an instance that another
\* instance loaded and that owns a custom hook, and was refused
C1_Witness ==
    /\ ev.op = "handler.unload_module"
    /\ ev.error = "CannotUnloadError"
    /\ ev.target \in DOMAIN loaded_modules
    /\ ev.who \in DOMAIN loaded_modules
    /\ ev.who # ev.target
    /\ get_loaded_kwargs(loaded_modules[ev.target], "loaded_by") \notin {MODMAN, ev.who}
    /\ \E h \in DOMAIN custom_hooks : custom_hooks[h].owner = ev.target
    /\ log = <<Call("handler_communicate", ev.who, "unload_module_failed")>>

\* C2: while an instance of a type without MultiInstanceAllowed is loaded,
\* every load of that type (any instance name or suffix, through the manager
\* or through the dispatcher) fails with ModuleAlreadyLoadedError and adds no
\* instance.
C2_SingleInstanceLoadsOnce ==
    [][ \A T \in ModuleTypes :
          ( /\ MultiInstanceAllowed \notin get_capabilities(T)
            /\ \E n \in DOMAIN loaded_modules :
                   get_module_type(loaded_modules[n]) = T
            /\ ev'.op \in Loads
            /\ ev'.target = <<T>> )
          => /\ ev'.error = "ModuleAlreadyLoadedError"
             /\ loaded_modules' = loaded_modules ]_vars

\* the single-instance class is loaded under an explicit name and a load
\* under its default name, which collides with nothing, was refused
C2_Witness ==
    /\ ev.op = "load_module"
    /\ ev.target = <<"alpha">>
    /\ ev.kwargs = NoKwArgs
    /\ ev.error = "ModuleAlreadyLoadedError"
    /\ DOMAIN loaded_modules = {<<"x", "1">>}

\* C3: for a multi-instance type T without a fixed suffix, starting with no
\* instance named T or T-<n> loaded, three consecutive default-name loads
\* return T, T-1, T-2 in that order and all three are loaded afterwards
\* (stated load by load: the names returned so far are the first names of
\* T, T-1, T-2 and are all loaded).
C3_ThreeDefaultLoads ==
    ( /\ Len(streak.rets) >= 1
      /\ MultiInstanceAllowed \in get_capabilities(streak.type)
      /\ get_multi_inst_suffix(streak.type) = "" )
    => /\ streak.rets = SubSeq(<< <<streak.type>>, <<streak.type, "1">>,
                                  <<streak.type, "2">> >>, 1, Len(streak.rets))
       /\ \A i \in 1..Len(streak.rets) : streak.rets[i] \in DOMAIN loaded_modules

\* C4: right after a successful unload of X no custom hook, custom method or
\* interrupt handler owned by X is left in its table.
C4_UnloadRemovesOwned ==
    (ev.op \in Unloads /\ ev.error = NoExc /\ ev.exc = NoExc)
    => /\ \A h \in DOMAIN custom_hooks : custom_hooks[h].owner # ev.target
       /\ \A k \in DOMAIN custom_methods : custom_methods[k].owner # ev.target
       /\ \A k \in DOMAIN external_interrupts :
              external_interrupts[k].owner # ev.target

\* the unloaded instance owned a hook, a method and an interrupt handler
C4_Witness ==
    /\ ev.op \in Unloads
    /\ ev.error = NoExc
    /\ ev.target \notin DOMAIN loaded_modules
    /\ \E i \in 1..Len(log) : log[i].call = "removing custom hook"
    /\ \E i \in 1..Len(log) : log[i].call = "removing custom method"
    /\ \E i \in 1..Len(log) : log[i].call = "removing interrupt handler"

AllHooks == { attached_hooks[h] : h \in DOMAIN attached_hooks }
                \cup { custom_hooks[h] : h \in DOMAIN custom_hooks }

\* C5: after a successful unload of X no hook, custom or system, holds an
\* attachment whose argument is X or whose callback belongs to X, and no
\* later firing of a hook calls a callback of an instance that is not loaded.
C5_NothingTargetsUnloaded ==
    /\ (ev.op \in Unloads /\ ev.error = NoExc /\ ev.exc = NoExc)
       => \A hook \in AllHooks : \A i \in 1..Len(hook.attached_callbacks) :
              /\ hook.attached_callbacks[i].argument # ArgInst(ev.target)
              /\ hook.attached_callbacks[i].callback.owner # ev.target
    /\ ev.op \in {"module_system_tick", "trigger_custom_hook"}
       => \A i \in 1..Len(log) :
              log[i].call = "callback" => log[i].inst \in DOMAIN loaded_modules

\* C6: when X is unloaded and owns the custom hook H, every other loaded
\* instance that attached a callback to H, with whatever argument, gets
\* handler_communicate(reason='provider_unloaded').
C6_SubscribersNotified ==
    [][ (ev'.op \in Unloads /\ ev'.error = NoExc /\ ev'.exc = NoExc)
        => \A H \in DOMAIN custom_hooks :
             custom_hooks[H].owner = ev'.target
             => \A i \in 1..Len(custom_hooks[H].attached_callbacks) :
                  LET Y == custom_hooks[H].attached_callbacks[i].callback.owner
                  IN  (Y \in DOMAIN loaded_modules /\ Y # ev'.target)
                      => \E j \in 1..Len(log') :
                           log'[j] = Call("handler_communicate", Y,
                                          "provider_unloaded") ]_vars

\* the deferred entry (T, s) names the instance N of type T
NamedBy(T, s, N) == s # <<>> /\ (N = <<T>> \o s \/ N = s)

\* the deferred entry (T, s) is satisfied by the instance N of type T
Satisfied(T, s, N) == s = <<>> \/ NamedBy(T, s, N)

\* C7: after every successful load, a load whose name got an automatic
\* suffix included, every deferred script that waits for the instance just
\* loaded has been replayed when the load returns.
C7_ReplayOnEveryLoad ==
    [][ (ev'.op \in Loads /\ ev'.error = NoExc /\ ev'.exc = NoExc)
        => LET T == ev'.target[1]
           IN  T \in DOMAIN deferred_scripts
               => \A script \in DOMAIN deferred_scripts[T] :
                    NamedBy(T, deferred_scripts[T][script], ev'.ret)
                    => \E j \in 1..Len(log') :
                         log'[j] = Call("ModuleManagerScript", <<script>>, "") ]_vars

\* C8: the deferred entry (T, s) is replayed by the load of instance N
\* exactly when N is of type T and s is empty, or N = 'T-s', or N = s.
C8_ReplayExactlyWhenMatching ==
    [][ (ev'.op \in Loads /\ ev'.error = NoExc /\ ev'.exc = NoExc)
        => \A T \in DOMAIN deferred_scripts :
             \A script \in DOMAIN deferred_scripts[T] :
               (\E j \in 1..Len(log') :
                    log'[j] = Call("ModuleManagerScript", <<script>>, ""))
               <=> ( /\ T = ev'.target[1]
                     /\ Satisfied(T, deferred_scripts[T][script], ev'.ret) ) ]_vars

PassCompleted == ev.op = "discover_modules" /\ ev.exc = NoExc

\* C9: if candidate B was deferred because it requires type A and a
\* candidate providing A is discovered later in the same pass, then after
\* the pass B is in found_modules and has no entry in deferred_discoveries.
C9_DeferredResolvedInPass ==
    PassCompleted
    => \A i, j \in 1..Len(log) :
         ( /\ i < j
           /\ log[i].call = "deferred"
           /\ PluginDirs[log[i].inst[1]].requires = <<log[i].info>>
           /\ log[j].call = "discovered"
           /\ log[j].info = log[i].info )
         => /\ PluginDirs[log[i].inst[1]].arg_name \in found_modules
            /\ ~DictHas(deferred_discoveries, log[i].inst[1])

\* C10: if candidate B was deferred because it requires type A and no
\* candidate providing A is discovered during the pass, then after the pass
\* B is not in found_modules and deferred_discoveries still holds B -> A.
C10_UnresolvedStaysDeferred ==
    PassCompleted
    => \A i \in 1..Len(log) :
         (log[i].call = "deferred" /\ log[i].info \notin found_modules)
         => /\ PluginDirs[log[i].inst[1]].arg_name \notin found_modules
            /\ \E k \in 1..Len(deferred_discoveries) :
                 deferred_discoveries[k] =
                     [ module |-> log[i].inst[1], dependency |-> log[i].info ]

\* a candidate of the pass was resolved: its discover_module ran (or failed)
Attempted(module) ==
    \E j \in 1..Len(log) :
        /\ log[j].inst = <<module>>
        /\ log[j].call \in {"discovered", "deferred", "failed"}

\* C11: for every ordered candidate list, discover_modules completes without
\* raising, every candidate of the list is attempted, and a candidate whose
\* resolution fails is logged and not registered (a failing candidate that
\* waits for a type nobody provided is logged as deferred); a broken or
\* deferred candidate never aborts the pass.
C11_DiscoveryNeverAborts ==
    ev.op = "discover_modules"
        => /\ ev.exc = NoExc
           /\ \A i \in 1..Len(ev.target) :
                ev.target[i] # "__init__"
                    => /\ Attempted(ev.target[i])
                       /\ PluginDirs[ev.target[i]].broken
                            => /\ \E j \in 1..Len(log) :
                                     \/ log[j] = Call("failed", <<ev.target[i]>>, "")
                                     \/ /\ log[j].call = "deferred"
                                        /\ log[j].inst = <<ev.target[i]>>
                                        /\ log[j].info \notin found_modules
                               /\ PluginDirs[ev.target[i]].arg_name \notin found_modules

\* the reason handler_communicate is given for a failed request
Reason ==
    [ call_custom_method |-> "call_method_failed",
      attach_custom_hook |-> "attach_hook_failed",
      attach_manager_hook |-> "attach_hook_failed",
      load_module |-> "load_module_failed",
      unload_module |-> "unload_module_failed",
      install_custom_hook |-> "install_hook_failed",
      install_custom_method |-> "install_method_failed",
      install_interrupt_handler |-> "install_interrupt_failed" ]

\* C12: every failing request an instance makes through module_handler ends
\* in a handler_communicate call on that instance with the matching reason,
\* and no error leaves module_handler; this includes the requests an
\* instance makes while its own constructor is still running inside a load.
C12_FailuresAreCommunicated ==
    [][ /\ ( /\ ev'.op = "module_handler"
             /\ Len(ev'.target) = 1
             /\ ev'.error # NoExc )
           => /\ ev'.exc = NoExc
              /\ \E j \in 1..Len(log') :
                   log'[j] = Call("handler_communicate", ev'.who, Reason[ev'.target[1]])
        /\ \A j \in 1..Len(log') :
             log'[j].call = "module_handler"
                => /\ log'[j].info = NoExc
                   /\ j > 1
                   /\ \/ log'[j - 1].call = "custom_method"
                      \/ log'[j - 1] = Call("handler_communicate", log'[j].inst,
                                            "call_method_failed") ]_vars

Recognized == DOMAIN Reason \cup LOGGING_KWARGS \cup {"require_module_instance"}

InSeqOf(x, seq) == \E i \in 1..Len(seq) : seq[i] = x

\* C13: when one module_handler call carries several recognized keywords,
\* every one of them is executed whatever the others are and whatever their
\* order (a requested hook is installed, a requested load has added an
\* instance or its failure was reported); a call carrying only unrecognized
\* keywords changes no table of the manager and raises nothing.
C13_EveryOperationExecuted ==
    [][ ev'.op = "module_handler"
        => /\ InSeqOf("install_custom_hook", ev'.target)
                => "h" \in DOMAIN custom_hooks'
           /\ InSeqOf("load_module", ev'.target)
                => \/ Cardinality(DOMAIN loaded_modules')
                          = Cardinality(DOMAIN loaded_modules) + 1
                   \/ \E j \in 1..Len(log') :
                        log'[j] = Call("handler_communicate", ev'.who,
                                       "load_module_failed")
           /\ (\A i \in 1..Len(ev'.target) : ev'.target[i] \notin Recognized)
                => /\ UNCHANGED Tables
                   /\ ev'.exc = NoExc ]_vars

\* the callbacks that the last firing of hook_name invoked, in order
Invoked(hook_name, entries) ==
    LET calls == SelectSeq(entries, LAMBDA e : e.call = "callback" /\ e.info = hook_name)
    IN  [ i \in 1..Len(calls) |-> calls[i].inst ]

\* the callbacks for which the last firing of hook_name logged an error
ErrorLogged(hook_name, entries) ==
    { entries[j].inst : j \in { k \in 1..Len(entries) :
        /\ entries[k].call \in {"failed to call function", "loading of module failed"}
        /\ entries[k].info = hook_name } }

\* C14: when a hook with several attachments is fired and the callback of
\* one attachment raises, or its load / unload action fails, the error is
\* logged for that attachment, the firing does not raise, and every
\* attachment that follows it on the hook is still invoked.
C14_ErrorsDoNotStopFiring ==
    [][ \A h \in DOMAIN custom_hooks :
          (ev'.op = "trigger_custom_hook" /\ ev'.target = <<h>>)
          => LET before == custom_hooks[h].attached_callbacks
             IN  /\ ev'.exc = NoExc
                 /\ \A i \in 1..Len(before) :
                      /\ ( /\ before[i].callback.returns = "raises"
                           /\ InSeqOf(before[i].callback.owner, Invoked(h, log')) )
                         => before[i].callback.owner \in ErrorLogged(h, log')
                      /\ before[i].callback.owner \in ErrorLogged(h, log')
                         => \A k \in (i + 1)..Len(before) :
                              InSeqOf(before[k].callback.owner, Invoked(h, log')) ]_vars

\* C15: a firing invokes the callback of every attachment that is on the
\* hook when the firing starts, each exactly once, in attachment order, also
\* when an attachment's action loads or unloads instances meanwhile.
C15_FiredInAttachmentOrder ==
    [][ \A h \in DOMAIN custom_hooks :
          (ev'.op = "trigger_custom_hook" /\ ev'.target = <<h>>)
          => LET before == custom_hooks[h].attached_callbacks
             IN  Invoked(h, log') = [ i \in 1..Len(before) |-> before[i].callback.owner ]
      ]_vars

\* the log entries of the turn of one attachment in the last firing of
\* hook_name: those after its callback entry and before the next callback
LoadsInTurn(hook_name, entries, owner) ==
    { entries[k] : k \in { k \in 1..Len(entries) :
        /\ entries[k].call = "load_module"
        /\ \E j \in 1..(k - 1) :
             /\ entries[j] = Call("callback", owner, hook_name)
             /\ \A l \in (j + 1)..k :
                  ~(entries[l].call = "callback" /\ entries[l].info = hook_name) } }

\* the attachments (cb, LOAD_MODULE, G), G discovered, of hook h whose
\* callback the firing invoked
LoadAttachments(h) ==
    LET before == custom_hooks[h].attached_callbacks
    IN  { before[i] : i \in { k \in 1..Len(before) :
            /\ before[k].action = LOAD_MODULE
            /\ before[k].argument.kind = "class"
            /\ before[k].argument.val[1] \in found_modules
            /\ InSeqOf(before[k].callback.owner, Invoked(h, log')) } }

\* the construction arguments recorded by an instance that fire loaded
\* with the event arguments kw
RecordedFor(G, kw) ==
    [ type |-> G,
      _loaded_kwargs |-> [ kwargs |-> kw, plugmgr |-> "self", loaded_by |-> MODMAN ] ]

\* C16 as stated: if hook h has an attachment (cb, LOAD_MODULE, G) with G a
\* discovered type, fire(h, **kw) with cb returning truthy loads an instance
\* of G whose recorded construction arguments are exactly kw with
\* loaded_by = 'modman' and the manager reference; if cb returns falsy no
\* load is issued.
C16_TruthyCallbackLoads ==
    [][ \A h \in DOMAIN custom_hooks :
          (ev'.op = "trigger_custom_hook" /\ ev'.target = <<h>>)
          => \A a \in LoadAttachments(h) :
               LET loads == LoadsInTurn(h, log', a.callback.owner)
               IN  /\ a.callback.returns = "truthy"
                      => \E e \in loads :
                           /\ e.info = NoExc
                           /\ e.inst \in DOMAIN loaded_modules'
                                => loaded_modules'[e.inst]
                                       = RecordedFor(a.argument.val[1], ev'.kwargs)
                   /\ a.callback.returns = "falsy" => loads = {} ]_vars

\* C16, amended: fire(h, **kw) with cb returning truthy issues one load of G
\* with kw as 'modman'; when the load succeeds the new instance records
\* exactly kw with loaded_by = 'modman' and the manager reference; the load
\* fails, and is logged, when G is a single-instance type that already has
\* an instance; if cb returns falsy no load is issued.
C16_TruthyCallbackIssuesLoad ==
    [][ \A h \in DOMAIN custom_hooks :
          (ev'.op = "trigger_custom_hook" /\ ev'.target = <<h>>)
          => \A a \in LoadAttachments(h) :
               LET loads == LoadsInTurn(h, log', a.callback.owner)
                   G == a.argument.val[1]
               IN  /\ a.callback.returns = "truthy"
                      => /\ Cardinality(loads) = 1
                         /\ \A e \in loads :
                              /\ ( e.info = NoExc /\ e.inst \in DOMAIN loaded_modules' )
                                   => loaded_modules'[e.inst] = RecordedFor(G, ev'.kwargs)
                              /\ e.info # NoExc
                                   => /\ e.info = "ModuleAlreadyLoadedError"
                                      /\ MultiInstanceAllowed \notin get_capabilities(G)
                                      /\ a.callback.owner \in ErrorLogged(h, log')
                   /\ a.callback.returns = "falsy" => loads = {} ]_vars

\* a firing with event argument x loaded a new instance that recorded x
C16_Witness ==
    /\ ev.op = "trigger_custom_hook"
    /\ ev.kwargs = KwArgs(None, "", {"x"})
    /\ \E j \in 1..Len(log) :
         /\ log[j].call = "load_module"
         /\ log[j].info = NoExc
         /\ log[j].inst \in DOMAIN loaded_modules
         /\ loaded_modules[log[j].inst] = RecordedFor("beta", KwArgs(None, "", {"x"}))
         /\ j > 1
         /\ log[j - 1].call = "_trigger_hooks"

\* a load of a type that was not discovered, or without one of the
\* arguments the type requires
Unknown(e) == e.target[1] \notin found_modules
LacksRequired(e) ==
    /\ e.target[1] \in found_modules
    /\ ~(ModuleClasses[e.target[1]]._required_kw \subseteq e.kwargs.given)
HasRequired(e) ==
    /\ e.target[1] \in found_modules
    /\ ModuleClasses[e.target[1]]._required_kw \subseteq e.kwargs.given

\* the load raised a load error and left the manager as it was: no instance
\* registered, no module_loaded hook fired, no deferred script replayed, no
\* table changed
RejectedAsLoadError ==
    /\ ev'.exc = "ModuleLoadError"
    /\ loaded_modules' = loaded_modules
    /\ \A j \in 1..Len(log') :
         log'[j].call \notin {"_trigger_hooks", "ModuleManagerScript"}
    /\ scripts' = scripts
    /\ deferred_scripts' = deferred_scripts
    /\ attached_hooks' = attached_hooks
    /\ custom_hooks' = custom_hooks
    /\ custom_methods' = custom_methods
    /\ external_interrupts' = external_interrupts

\* the type of the load is a single-instance type that has an instance
Occupied(e) ==
    /\ MultiInstanceAllowed \notin get_capabilities(e.target[1])
    /\ \E n \in DOMAIN loaded_modules :
         get_module_type(loaded_modules[n]) = e.target[1]

\* C17 as stated: a load of a type that is not discovered, or of a discovered
\* type with a required construction argument missing, raises the load
\* error, registers no instance, fires no module_loaded hook, replays no
\* deferred entry and leaves the hook, method and interrupt tables
\* unchanged; a following load of the same type with all required arguments
\* succeeds.
C17_BadLoadRejected ==
    [][ /\ ( ev'.op = "load_module" /\ (Unknown(ev') \/ LacksRequired(ev')) )
           => RejectedAsLoadError
        /\ ( /\ ev.op = "load_module" /\ LacksRequired(ev)
             /\ ev'.op = "load_module" /\ ev'.target = ev.target /\ HasRequired(ev') )
           => ( ev'.exc = NoExc /\ ev'.ret \in DOMAIN loaded_modules' ) ]_vars

\* C17, amended: the statement holds for a type that is not discovered and
\* for a discovered type that allows multiple instances or has no loaded
\* instance; a load of a single-instance type that has an instance raises
\* the already-loaded error whatever its arguments, and changes nothing.
C17_BadLoadRejectedUnlessOccupied ==
    [][ /\ ( ev'.op = "load_module" /\ Unknown(ev') ) => RejectedAsLoadError
        /\ ( ev'.op = "load_module" /\ LacksRequired(ev') /\ ~Occupied(ev') )
           => RejectedAsLoadError
        /\ ( /\ ev.op = "load_module" /\ LacksRequired(ev) /\ ~Occupied(ev)
             /\ ev'.op = "load_module" /\ ev'.target = ev.target /\ HasRequired(ev') )
           => ( ev'.exc = NoExc /\ ev'.ret \in DOMAIN loaded_modules' )
        /\ ( ev'.op = "load_module" /\ ev'.target[1] \in found_modules /\ Occupied(ev') )
           => ( /\ ev'.exc = "ModuleAlreadyLoadedError"
                /\ loaded_modules' = loaded_modules
                /\ log' = <<>> ) ]_vars

\* a load of the discovered type test_mod without required_kw1 was rejected
\* while a hook is installed and a script waits for the instance
C17_Witness ==
    /\ ev.op = "load_module"
    /\ ev.target = <<"test_mod">>
    /\ "test_mod" \in found_modules
    /\ "required_kw1" \notin ev.kwargs.given
    /\ ev.exc = "ModuleLoadError"
    /\ loaded_modules = EmptyMap
    /\ "h" \in DOMAIN custom_hooks
    /\ "test_mod" \in DOMAIN deferred_scripts

\* the positions of the log at which the module_loaded hook was fired
LoadedFirings(entries) ==
    { j \in 1..Len(entries) : /\ entries[j].call = "_trigger_hooks"
                              /\ entries[j].inst[1] = "modman.module_loaded" }

\* C18: every successful load fires 'modman.module_loaded' exactly once, with
\* instance_name equal to the name the load returns, while the new instance
\* is already in loaded_modules under that name; every callback attached to
\* the hook is invoked once by that firing.
C18_LoadedHookFiredOnce ==
    [][ (ev'.op \in Loads /\ ev'.error = NoExc /\ ev'.exc = NoExc)
        => /\ Cardinality(LoadedFirings(log')) = 1
           /\ ev'.ret \in DOMAIN loaded_modules'
           /\ \A j \in LoadedFirings(log') :
                /\ log'[j] = Call("_trigger_hooks",
                                  <<"modman.module_loaded">> \o ev'.ret, "registered")
                /\ LET watchers == attached_hooks["modman.module_loaded"].attached_callbacks
                   IN  \A i \in 1..Len(watchers) :
                         Cardinality({ k \in (j + 1)..Len(log') :
                             log'[k] = Call("callback", watchers[i].callback.owner,
                                            "modman.module_loaded") }) = 1 ]_vars

\* an instance asked for a load that was given a suffixed name, and a
\* callback of the application was told
C18_Witness ==
    /\ ev.op = "handler.load_module"
    /\ ev.error = NoExc
    /\ ev.ret = <<"beta", "1">>
    /\ log = << Call("_trigger_hooks", <<"modman.module_loaded", "beta", "1">>,
                     "registered"),
                Call("callback", Ext("1"), "modman.module_loaded") >>

\* the name a load asks for: instance_name (the type by default) followed by
\* instance_suffix
BaseName(e) ==
    LET named == IF e.kwargs.instance_name = None THEN e.target ELSE e.kwargs.instance_name
    IN  IF e.kwargs.instance_suffix # "" THEN Append(named, e.kwargs.instance_suffix)
        ELSE named

\* the numbers n for which an instance named B-n is loaded
UsedSuffixes(B) ==
    { n \in 1..Len(NumStr) : Append(B, ToStr(n)) \in DOMAIN loaded_modules }

\* a successful load of a multi-instance type whose base name is the name of
\* a loaded instance
Collides(e) ==
    /\ e.op \in Loads
    /\ e.error = NoExc
    /\ e.exc = NoExc
    /\ MultiInstanceAllowed \in get_capabilities(e.target[1])
    /\ BaseName(e) \in DOMAIN loaded_modules

\* C19: for a multi-instance type with no fixed suffix, a load whose base
\* name B is a loaded instance name names the new instance B-k with
\* k = 1 + max{n : an instance named B-n is loaded}, or k = 1 if there is no
\* such instance; when the type has a fixed suffix s the new instance is
\* named B-s.
C19_SuffixIsMaxPlusOne ==
    [][ Collides(ev')
        => LET B == BaseName(ev')
               s == get_multi_inst_suffix(ev'.target[1])
               k == IF UsedSuffixes(B) = {} THEN 1 ELSE 1 + Max(UsedSuffixes(B))
           IN  /\ ev'.ret \in DOMAIN loaded_modules'
               /\ s = "" => ev'.ret = Append(B, ToStr(k))
               /\ s # "" => ev'.ret = Append(B, s) ]_vars

Queries == {"get_module_property", "set_module_property", "call_module_method"}

\* C21: get_module_property, set_module_property and call_module_method
\* return a valid value or a tagged error for every instance name, every
\* property or method name and every behaviour of the underlying getter,
\* setter or method; no exception leaves them.
C21_QueriesNeverRaise ==
    (ev.op \in Queries) => ev.exc = NoExc

\* the instance and the property or method that a query names
QInstance(e) == SubSeq(e.target, 1, Len(e.target) - 1)
QMember(e) == e.target[Len(e.target)]

\* C22: for every loaded instance, a get of a write-only property and a set
\* of a read-only property fail with ModulePropertyPermissionError, a get or
\* set of an undeclared property fails with ModuleInvalidPropertyError, the
\* getter or setter is not invoked, and through the manager the failures
\* are the tagged errors write_only, read_only and invalid_property.
C22_PropertyPermissions ==
    [][ ( /\ ev'.op \in {"get_property_value", "set_property_value",
                         "get_module_property", "set_module_property"}
          /\ QInstance(ev') \in DOMAIN loaded_modules )
        => LET props == _properties(loaded_modules[QInstance(ev')])
               p == QMember(ev')
               get == ev'.op \in {"get_property_value", "get_module_property"}
               direct == ev'.op \in {"get_property_value", "set_property_value"}
               denied == /\ p \in DOMAIN props
                         /\ props[p].permissions = (IF get THEN WRITE ELSE READ)
               kind == IF denied THEN "ModulePropertyPermissionError"
                       ELSE "ModuleInvalidPropertyError"
               tag == IF ~denied THEN "invalid_property"
                      ELSE IF get THEN "write_only" ELSE "read_only"
           IN  ( denied \/ p \notin DOMAIN props )
               => /\ log' = <<>>
                  /\ direct => ev'.exc = kind
                  /\ ~direct => ( ev'.exc = NoExc /\ ev'.ret = Tagged(tag) ) ]_vars

\* a set of the read-only property2 through the manager was answered with
\* read_only and the setter of the class was not called
C22_Witness ==
    /\ ev.op = "set_module_property"
    /\ ev.target = <<"module_two", "property2">>
    /\ <<"module_two">> \in DOMAIN loaded_modules
    /\ ev.ret = Tagged("read_only")
    /\ log = <<>>

\* the arguments a method declares, and those it declares as required
Declared(method) == { method.method_args[i].arg_name : i \in 1..Len(method.method_args) }
DeclaredRequired(method) ==
    { method.method_args[i].arg_name :
        i \in { k \in 1..Len(method.method_args) :
                  \/ method.method_args[k].argument_required
                  \/ method.method_args[k].required = "True" } }

\* C23: call_method on an instance fails with ModuleMethodError, without
\* invoking the callable, when the method is not declared, when a declared
\* required argument is omitted or when an argument that is not declared is
\* given; with admissible arguments it invokes the callable and returns its
\* result.
C23_MethodArgumentsChecked ==
    [][ ( ev'.op = "call_method" /\ QInstance(ev') \in DOMAIN loaded_modules )
        => LET methods == _methods(loaded_modules[QInstance(ev')])
               k == QMember(ev')
               given == ev'.kwargs.given
               admissible == /\ k \in DOMAIN methods
                             /\ DeclaredRequired(methods[k]) \subseteq given
                             /\ given \subseteq Declared(methods[k])
           IN  /\ ~admissible => ( ev'.exc = "ModuleMethodError" /\ log' = <<>> )
               /\ ( admissible /\ methods[k].method_call = Returns )
                  => /\ ev'.exc = NoExc
                     /\ ev'.ret = <<"value">>
                     /\ log' = << Call("method", QInstance(ev'), k) >> ]_vars


HookInstalls == {"install_custom_hook", "handler.install_custom_hook"}
MethodInstalls == {"install_custom_method", "handler.install_custom_method"}
InterruptInstalls == {"install_interrupt_handler", "handler.install_interrupt_handler"}

\* the operation of event e failed with `error`: the error left the public
\* call of the application, or was raised inside the dispatcher, which
\* reports it to the calling instance
FailedWith(e, error) ==
    /\ e.error = error
    /\ e.who = MODMAN => e.exc = error

\* C24: installing a custom hook, a custom method or an interrupt handler
\* under a name that is already in the table fails with
\* HookAlreadyInstalledError, MethodAlreadyInstalledError or
\* InterruptAlreadyInstalledError, and the existing entry keeps its callback,
\* its owner and (for a hook) its attachments: no table changes.  Under a
\* free name the installation succeeds and the entry belongs to the
\* installer.
C24_ExistingEntryKept ==
    [][ /\ ev'.op \in HookInstalls =>
              IF ev'.target[1] \in DOMAIN custom_hooks
              THEN FailedWith(ev', "HookAlreadyInstalledError") /\ Tables' = Tables
              ELSE /\ ev'.error = NoExc
                   /\ custom_hooks'[ev'.target[1]] = ModuleManagerHook(ev'.who)
        /\ ev'.op \in MethodInstalls =>
              IF ev'.target[1] \in DOMAIN custom_methods
              THEN FailedWith(ev', "MethodAlreadyInstalledError") /\ Tables' = Tables
              ELSE /\ ev'.error = NoExc
                   /\ custom_methods'[ev'.target[1]].owner = ev'.who
        /\ ev'.op \in InterruptInstalls =>
              IF ev'.target[1] \in DOMAIN external_interrupts
              THEN FailedWith(ev', "InterruptAlreadyInstalledError") /\ Tables' = Tables
              ELSE /\ ev'.error = NoExc
                   /\ external_interrupts'[ev'.target[1]].owner = ev'.who ]_vars

\* a loaded instance was refused the hook name "h", which the application
\* owns and to which callbacks are attached
C24_Witness ==
    /\ ev.op = "handler.install_custom_hook"
    /\ ev.who \in Loaded
    /\ ev.error = "HookAlreadyInstalledError"
    /\ "h" \in DOMAIN custom_hooks
    /\ custom_hooks["h"].owner = MODMAN
    /\ Len(custom_hooks["h"].attached_callbacks) >= 2

\* the callback list `after` is `before`, or `before` with one more entry
Attached(before, after) ==
    \/ after = before
    \/ /\ Len(after) = Len(before) + 1
       /\ SubSeq(after, 1, Len(before)) = before

\* C25: an operation that names an absent entry fails with the matching
\* not-available error and changes no table: attach_custom_hook on a hook
\* that is not installed and attach_manager_hook on a name that is no system
\* hook fail with HookNotAvailableError; call_custom_method on a method that
\* is not installed (never installed, or removed with its owner: a
\* successful unload leaves no method owned by the unloaded instance) fails
\* with MethodNotAvailableError.  On a present name the attachment is made
\* and the method is called.
C25_AbsentEntryNotAvailable ==
    [][ /\ ev'.op \in {"attach_custom_hook", "handler.attach_custom_hook"} =>
              IF ev'.target[1] \notin DOMAIN custom_hooks
              THEN FailedWith(ev', "HookNotAvailableError") /\ Tables' = Tables
              ELSE /\ ev'.error = NoExc /\ ev'.exc = NoExc
                   /\ DOMAIN custom_hooks' = DOMAIN custom_hooks
                   /\ custom_hooks'[ev'.target[1]].owner
                          = custom_hooks[ev'.target[1]].owner
                   /\ Attached(custom_hooks[ev'.target[1]].attached_callbacks,
                               custom_hooks'[ev'.target[1]].attached_callbacks)
                   /\ attached_hooks' = attached_hooks
        /\ ev'.op = "attach_manager_hook" =>
              IF ev'.target[1] \notin DOMAIN attached_hooks
              THEN FailedWith(ev', "HookNotAvailableError") /\ Tables' = Tables
              ELSE /\ ev'.error = NoExc /\ ev'.exc = NoExc
                   /\ Attached(attached_hooks[ev'.target[1]].attached_callbacks,
                               attached_hooks'[ev'.target[1]].attached_callbacks)
                   /\ custom_hooks' = custom_hooks
        /\ ev'.op = "call_custom_method" =>
              /\ Tables' = Tables
              /\ IF ev'.target[1] \notin DOMAIN custom_methods
                 THEN FailedWith(ev', "MethodNotAvailableError") /\ log' = <<>>
                 ELSE /\ ev'.exc = NoExc
                      /\ log' = << Call("custom_method",
                                         custom_methods[ev'.target[1]].owner,
                                         ev'.target[1]) >>
        /\ (ev'.op \in Unloads /\ ev'.error = NoExc) =>
              \A k \in DOMAIN custom_methods' : custom_methods'[k].owner # ev'.target
      ]_vars

\* attach_manager_hook refused the name "h", which is an installed custom
\* hook but no hook of the manager
C25_Witness ==
    /\ ev.op = "attach_manager_hook"
    /\ ev.target = <<"h">>
    /\ ev.exc = "HookNotAvailableError"
    /\ "h" \in DOMAIN custom_hooks
    /\ "m" \notin DOMAIN custom_methods
    /\ <<"alpha">> \notin Loaded /\ "alpha" \in found_modules

NotAvailableErrors ==
    {"MethodNotAvailableError", "HookNotAvailableError", "InterruptNotAvailableError"}

\* C26: the interrupt table has the call contract of the method table:
\* triggering an interrupt that is not installed fails with a not-available
\* error; triggering an installed one invokes its callback with the keyword
\* arguments and returns no value.
C26_InterruptContract ==
    [][ ev'.op = "external_interrupt" =>
          IF ev'.target[1] \notin DOMAIN external_interrupts
          THEN ev'.exc \in NotAvailableErrors /\ log' = <<>>
          ELSE /\ ev'.exc = NoExc
               /\ ev'.ret = None
               /\ log' = << Call("interrupt", external_interrupts[ev'.target[1]].owner,
                                  ev'.target[1]) >> ]_vars

\* the call c is made, and made before the call d, in the sequence of calls L
Before(L, c, d) ==
    \E j \in 1..Len(L) : \E k \in (j + 1)..Len(L) : L[j] = c /\ L[k] = d

\* C27: in every successful unload of X, module_unload of X runs first,
\* while X is still loaded and everything X installed is still in place;
\* then, for each custom hook H owned by X, the subscribers of H (the other
\* loaded instances with a callback attached to H) are notified before the
\* entry of H is deleted; X leaves the loaded registry only after the
\* cleanup of hooks, methods, interrupts and attachments.
C27_UnloadOrder ==
    [][ (ev'.op \in Unloads /\ ev'.error = NoExc /\ ev'.exc = NoExc)
        => /\ Len(log') >= 1
           /\ log'[1] = Call("module_unload", ev'.target, "")
           /\ ev'.target \notin DOMAIN loaded_modules'
           /\ \A H \in DOMAIN custom_hooks :
                custom_hooks[H].owner = ev'.target
                => /\ H \notin DOMAIN custom_hooks'
                   /\ \A i \in 1..Len(custom_hooks[H].attached_callbacks) :
                        LET a == custom_hooks[H].attached_callbacks[i]
                        IN  ( /\ a.callback.owner \in DOMAIN loaded_modules
                              /\ a.callback.owner # ev'.target )
                            => Before(log', Call("handler_communicate",
                                                 a.callback.owner,
                                                 "provider_unloaded"),
                                      Call("removing custom hook", <<H>>, ""))
      ]_vars

\* how many times the script was initialised in the sequence of calls L
Activations(L, script) ==
    Cardinality({ j \in 1..Len(L) : L[j] = Call("ModuleManagerScript", <<script>>, "") })

\* C28: when a load satisfies a deferred script entry and replays it, the
\* script is initialised exactly once for that load and, unless the script
\* defers again, its entry is removed from the deferred table, so that a
\* later load satisfying the same key does not initialise it again.
C28_ReplayedEntryRemoved ==
    [][ (ev'.op \in Loads /\ ev'.error = NoExc /\ ev'.exc = NoExc)
        => \A T \in DOMAIN deferred_scripts :
             \A script \in DOMAIN deferred_scripts[T] :
               ( /\ T = ev'.target[1]
                 /\ NamedBy(T, deferred_scripts[T][script], ev'.ret)
                 /\ Activations(log', script) >= 1 )
               => /\ Activations(log', script) = 1
                  /\ script \in scripts'
                       => ~( /\ T \in DOMAIN deferred_scripts'
                             /\ script \in DOMAIN deferred_scripts'[T] ) ]_vars

\* the candidates c[1], c[2], ... form a dependency chain: the first needs
\* nothing and every other one needs exactly the type its predecessor
\* registers; every candidate registers the type its directory is named after
ChainOrder(c) ==
    /\ Len(c) >= 3
    /\ \A i \in 1..Len(c) :
         /\ c[i] \in DOMAIN PluginDirs
         /\ ~PluginDirs[c[i]].broken
         /\ PluginDirs[c[i]].arg_name = c[i]
         /\ PluginDirs[c[i]].requires =
                IF i = 1 THEN <<>> ELSE << PluginDirs[c[i - 1]].arg_name >>

Range(s) == { s[i] : i \in 1..Len(s) }

\* module_list names the candidates of one chain, in some order
IsChain(module_list) ==
    \E c \in ModuleLists :
        /\ Len(c) = Len(module_list)
        /\ Range(c) = Range(module_list)
        /\ ChainOrder(c)

\* C29: for a dependency chain of three or more candidates listed in one
\* pass, in whatever order, discover_modules completes normally with every
\* candidate of the chain registered and deferred_discoveries empty.
C29_ChainDiscoveredInOnePass ==
    (ev.op = "discover_modules" /\ IsChain(ev.target))
    => /\ ev.exc = NoExc
       /\ \A i \in 1..Len(ev.target) :
            PluginDirs[ev.target[i]].arg_name \in found_modules
       /\ deferred_discoveries = <<>>

\* C30: at the end of every discovery pass, each candidate that signalled a
\* deferral during the pass is in found_modules or still has an entry in
\* deferred_discoveries; this includes a candidate that fails, or defers
\* again on another type, when it is retried.
C30_DeferredNeverLost ==
    PassCompleted
    => \A i \in 1..Len(log) :
         log[i].call = "deferred"
         => \/ PluginDirs[log[i].inst[1]].arg_name \in found_modules
            \/ DictHas(deferred_discoveries, log[i].inst[1])

Attempts == {"discovered", "deferred", "failed"}

\* the calls i < k of the pass are two consecutive attempts of one candidate,
\* the first of which deferred it: the attempt k is a retry
Retry(i, k) ==
    /\ i < k
    /\ log[i].call = "deferred"
    /\ log[k].call \in Attempts
    /\ log[k].inst = log[i].inst
    /\ \A l \in (i + 1)..(k - 1) : log[l].inst # log[i].inst

\* C31: after a candidate is discovered and registered as type T, the
\* deferred entries that are retried are exactly those whose required type
\* is T, also when the source name of the candidate differs from T: a
\* candidate waiting for T is retried once T is registered, and a retry
\* only follows the registration of the type the candidate was waiting for.
C31_RetriedExactlyOnRequiredType ==
    PassCompleted
    => /\ \A i, j \in 1..Len(log) :
            ( /\ i < j
              /\ log[i].call = "deferred"
              /\ log[j].call = "discovered"
              /\ log[j].info = log[i].info
              /\ \A l \in (i + 1)..j : log[l].inst # log[i].inst )
            => \E k \in (j + 1)..Len(log) : Retry(i, k)
       /\ \A i, k \in 1..Len(log) :
            Retry(i, k)
            => \E j \in (i + 1)..(k - 1) :
                 log[j].call = "discovered" /\ log[j].info = log[i].info

\* C32: every discover_modules pass over a finite candidate list
\* terminates, with a recursion depth bounded by the length of the longest
\* dependency chain, for every dependency relation among the candidates,
\* mutual requirements included, and with deferred entries left in the
\* table by an earlier pass or made satisfiable by insert_module: no nested
\* discovery ever runs into the limit of the call stack.
C32_RecursionBoundedByChain ==
    ev.op = "discover_modules"
    => \A j \in 1..Len(log) : log[j].info # "RecursionError"

\* C33: every successful load adds exactly one new name to the loaded
\* registry and never replaces an instance that is still loaded: the name
\* it returns was not loaded before, is loaded afterwards, and every
\* instance loaded before is still there, unchanged.  This holds for
\* default names, explicit names, automatically suffixed names and types
\* with a fixed suffix.
C33_LoadAddsOneNewName ==
    [][ (ev'.op \in Loads /\ ev'.error = NoExc /\ ev'.exc = NoExc)
        => /\ ev'.ret \notin DOMAIN loaded_modules
           /\ DOMAIN loaded_modules' = DOMAIN loaded_modules \cup {ev'.ret}
           /\ \A n \in DOMAIN loaded_modules :
                loaded_modules'[n] = loaded_modules[n] ]_vars

\* C34: if the instance Z is neither the recorded owner of the instance Y
\* nor the manager, nothing that Z asks for through the dispatcher (unloads,
\* installs, attachments with any action and argument), followed by any
\* firing of hooks, removes Y from the loaded registry: an instance that a
\* step removes was loaded by the requester of the step, or the step is a
\* firing and an unloading attachment made by Y itself or by the instance
\* that loaded Y names it.
C34_OnlyOwnerRemoves ==
    [][ \A Y \in DOMAIN loaded_modules \ DOMAIN loaded_modules' :
          LET owner == get_loaded_kwargs(loaded_modules[Y], "loaded_by")
          IN  \/ ev'.who = owner /\ ev'.op \in Unloads
              \/ /\ ev'.op = "module_system_tick"
                 /\ \E i \in 1..Len(attached_hooks["modman.tick"].attached_callbacks) :
                      LET a == attached_hooks["modman.tick"].attached_callbacks[i]
                      IN  /\ a.action = UNLOAD_MODULE
                          /\ a.argument = ArgInst(Y)
                          /\ a.callback.owner \in {Y, owner} ]_vars

\* the recorded owners of the custom hooks, the custom methods and the
\* interrupt handlers
Owners ==
    { custom_hooks[h].owner : h \in DOMAIN custom_hooks }
    \cup { custom_methods[k].owner : k \in DOMAIN custom_methods }
    \cup { external_interrupts[k].owner : k \in DOMAIN external_interrupts }

\* C35: whenever no operation is in progress, the recorded owner of every
\* custom hook, custom method and interrupt handler is 'modman' or an
\* instance that is currently loaded, after any sequence of loads, failed
\* loads (a constructor that installed entries through the dispatcher and
\* then raised included), unloads and installs.
C35_OwnersAreLoaded ==
    \A o \in Owners : o = MODMAN \/ o \in DOMAIN loaded_modules

\* C37: a 'require_module_instance' request for the name N through the
\* dispatcher raises ModuleLoadError to the caller if and only if N is not
\* a loaded instance name, and changes no state of the manager in either
\* case; consequently a load of a type whose constructor requires an absent
\* instance fails with ModuleLoadError and registers nothing, and the same
\* load succeeds once that instance has been loaded.
C37_RequireModuleInstance ==
    [][ /\ ev'.op = "handler.require_module_instance"
           => /\ ev'.exc = "ModuleLoadError" <=> ev'.target \notin DOMAIN loaded_modules
              /\ ev'.exc \in {NoExc, "ModuleLoadError"}
              /\ UNCHANGED <<Tables, tick_counter, discovery_active>>
        /\ ( /\ ev'.op = "load_module"
             /\ ev'.target = <<"module_one">>
             /\ "module_one" \in found_modules
             /\ <<"module_one">> \notin DOMAIN loaded_modules )
           => IF <<"module_two">> \notin DOMAIN loaded_modules
              THEN /\ ev'.exc = "ModuleLoadError"
                   /\ UNCHANGED <<Tables, tick_counter, discovery_active>>
              ELSE /\ ev'.exc = NoExc
                   /\ ev'.ret = <<"module_one">>
                   /\ <<"module_one">> \in DOMAIN loaded_modules' ]_vars

\* C36: whenever a deferred activation is replayed because of a load, the
\* newly loaded instance (the one the script was waiting for) is already in
\* the loaded registry and the 'modman.module_loaded' hook has already fired
\* for it, so that the replayed activation can query the new instance.
C36_ReplayAfterCommit ==
    ev.op \in Loads
    => \A k \in 1..Len(log) :
         log[k].call = "ModuleManagerScript"
         => LET instance_name == ScriptFiles[log[k].inst[1]].needs
            IN  /\ instance_name \in DOMAIN loaded_modules
                /\ \E j \in 1..(k - 1) :
                     /\ log[j].call = "_trigger_hooks"
                     /\ log[j].inst = <<"modman.module_loaded">> \o instance_name

\* the entries of a table that a step removes or replaces
Lost(before, after) ==
    { k \in DOMAIN before : k \notin DOMAIN after \/ after[k] # before[k] }

\* C38: a custom method or interrupt handler, once installed, stays in its
\* table with the same callback and owner until the instance named as its
\* owner is unloaded: no other operation removes or replaces it, and an
\* entry owned by the manager is not removed by the unload of any loaded
\* instance.
C38_EntriesKeptUntilOwnerUnloaded ==
    [][ /\ \A k \in Lost(custom_methods, custom_methods') :
             /\ custom_methods[k].owner # MODMAN
             /\ custom_methods[k].owner \in DOMAIN loaded_modules \ DOMAIN loaded_modules'
        /\ \A k \in Lost(external_interrupts, external_interrupts') :
             /\ external_interrupts[k].owner # MODMAN
             /\ external_interrupts[k].owner
                   \in DOMAIN loaded_modules \ DOMAIN loaded_modules' ]_vars

\* the number of copies of x in the sequence s
Copies(s, x) == Cardinality({ i \in 1..Len(s) : s[i] = x })

\* C39: attaching and detaching on a hook are idempotent: attaching an
\* attachment (callback, action, argument) that is already on the hook
\* leaves exactly one copy of it and keeps its position in the firing order
\* (the list is unchanged), and detaching an attachment that is not on the
\* hook, for example a second time, changes nothing and raises no error.
C39_AttachDetachIdempotent ==
    [][ ev'.op \in {"attach_callback", "detach_callback"}
        => LET a == Attachments[ToInt(ev'.target[2])]
               before == custom_hooks[ev'.target[1]].attached_callbacks
               after == custom_hooks'[ev'.target[1]].attached_callbacks
           IN  /\ ev'.exc = NoExc
               /\ ev'.op = "attach_callback"
                  => /\ Copies(after, a) = 1
                     /\ InSeq(a, before) => after = before
                     /\ ~InSeq(a, before) => after = Append(before, a)
               /\ ev'.op = "detach_callback"
                  => /\ Copies(after, a) = 0
                     /\ ~InSeq(a, before) => after = before ]_vars

\* an attachment was attached again while it was the first of several on
\* the hook: it is still the first and there is one copy of it
C39_Witness ==
    /\ ev.op = "attach_callback"
    /\ LET attached_callbacks == custom_hooks[ev.target[1]].attached_callbacks
       IN  /\ Len(attached_callbacks) >= 2
           /\ attached_callbacks[1] = Attachments[ToInt(ev.target[2])]

\* C40: no operation of the manager ever fires the system hook
\* 'modman.module_unloaded': for every sequence of loads, unloads, ticks,
\* firings of custom hooks and requests through the dispatcher, no firing
\* of that hook starts and no callback is invoked on its behalf, while the
\* set of system hooks stays exactly {modman.module_loaded,
\* modman.module_unloaded, modman.tick}.
C40_ModuleUnloadedNeverFired ==
    /\ DOMAIN attached_hooks = ManagerHooks
    /\ \A j \in 1..Len(log) :
         /\ log[j].call = "_trigger_hooks" => log[j].inst[1] # "modman.module_unloaded"
         /\ log[j].call = "callback" => log[j].info # "modman.module_unloaded"

\* an instance was unloaded while callbacks of the application and of
\* another instance were attached to 'modman.module_unloaded'
C40_Witness ==
    /\ ev.op \in Unloads
    /\ ev.error = NoExc
    /\ ev.target \notin DOMAIN loaded_modules
    /\ Len(attached_hooks["modman.module_unloaded"].attached_callbacks) >= 2
====
